---- MODULE Spec2Model ----
(***************************************************************************)
(* Candidate Enrichment and Historical Backtest Engine of aiw-evidence.    *)
(*                                                                         *)
(* The model covers the batch scripts that read and write the              *)
(* candidates table AIW_A_CREAMY_LAYER:                                    *)
(*   aiw_profile_metrics_enricher_v1.py   (EnrichV1)                       *)
(*   aiw_profile_metrics_enricher_v2.py   (EnrichV2)                       *)
(*   aiw_backtest_1y_h7_top200_stopfirst.py (SimStart, SimStep, SimFinish) *)
(*   aiw_expand_creamy_to_all_profiles_v1.py (ExpandBegin, ExpandStep,     *)
(*                                            ExpandCommit)                *)
(*                                                                         *)
(* Spec and SimSpec take one invocation, or one loop iteration of the      *)
(* backtest, as a step.  TxSpec follows the writers statement by           *)
(* statement: `creamy` is the committed table, `txn` the open connection   *)
(* with its uncommitted view; a process that dies before commit() leaves   *)
(* `creamy` as it was.  PipeSpec runs the enrichers and then the backtest  *)
(* on one table holding two profiles.                                      *)
(*                                                                         *)
(* Numbers.  Python floats are modelled as exact rationals <<n, d>> with   *)
(* d > 0 in lowest terms; SQL NULL / Python None is the empty tuple <<>>.  *)
(* "%.2f" formatting and round() are modelled as rounding to the nearest   *)
(* hundredth / integer, ties to even.  Dates are ISO "YYYY-MM-DD" strings  *)
(* in the code, whose string order is the calendar order; the model uses   *)
(* the day ordinal.                                                        *)
(***************************************************************************)
EXTENDS Integers, Sequences, FiniteSets, TLC

VARIABLES
    creamy,     \* table AIW_A_CREAMY_LAYER, rows in stored (rowid) order
    eod,        \* table AIW_H_PRICE_EOD
    clock,      \* wall clock read by utcnow() / now_iso(), one tick per invocation
    log,        \* the last status line printed by a script
    sim,        \* the backtest's local state (pc, args, work list, stats)
    out,        \* the summary file the backtest writes (args.out)
    profiles,   \* table AIW_C_PROFILE, rows in stored order
    txn         \* the open connection of a writer: its position and its view

vars == <<creamy, eod, clock, log, sim, out, profiles, txn>>

(***************************************************************************)
(* Exact rational arithmetic                                               *)
(***************************************************************************)
NULL == <<>>

Abs(x) == IF x < 0 THEN -x ELSE x

RECURSIVE GCD(_, _)
GCD(a, b) == IF b = 0 THEN a ELSE GCD(b, a % b)

Rat(n, d) ==
    LET s == IF d < 0 THEN -1 ELSE 1
        g == GCD(Abs(n), Abs(d))
    IN  <<(s * n) \div g, (s * d) \div g>>

RInt(k) == <<k, 1>>
RAdd(a, b) == Rat(a[1] * b[2] + b[1] * a[2], a[2] * b[2])
RSub(a, b) == Rat(a[1] * b[2] - b[1] * a[2], a[2] * b[2])
RMul(a, b) == Rat(a[1] * b[1], a[2] * b[2])
RDiv(a, b) == Rat(a[1] * b[2], a[2] * b[1])
RLt(a, b) == a[1] * b[2] < b[1] * a[2]
RLe(a, b) == a[1] * b[2] <= b[1] * a[2]
RMax(a, b) == IF RLt(a, b) THEN b ELSE a
RMin(a, b) == IF RLt(b, a) THEN b ELSE a

\* round(x) / "%d": nearest integer, ties to even
RoundInt(x) ==
    LET q == x[1] \div x[2]
        r == x[1] % x[2]
    IN  IF 2 * r < x[2] THEN q
        ELSE IF 2 * r > x[2] THEN q + 1
        ELSE IF q % 2 = 0 THEN q ELSE q + 1

\* "%.2f" % x: the number of hundredths nearest to x
Fmt2(x) == RoundInt(RMul(x, RInt(100)))

\* float("%.2f" % x)
Round2(x) == Rat(Fmt2(x), 100)

\* float(v or 0.0) and f(v): NULL is coerced to 0.0
FloatOr0(v) == IF v = NULL THEN RInt(0) ELSE v

\* int(v or 0) of an integer column held as <<k>> or NULL
IntOr0(v) == IF v = NULL THEN 0 ELSE v[1]

(***************************************************************************)
(* Profiles and risk classes                                               *)
(***************************************************************************)

\* The usual content of table AIW_C_PROFILE (read-only for every script).
AIW_C_PROFILE ==
    << [PROFILE_ID |-> "AGGRESSIVE",       PROFILE_CODE |-> "AGGRESSIVE",
        PROFILE_NAME |-> "High growth"],
       [PROFILE_ID |-> "CONSERVATIVE",     PROFILE_CODE |-> "CONSERVATIVE",
        PROFILE_NAME |-> "Capital first"],
       [PROFILE_ID |-> "ULTRA_AGGRESSIVE", PROFILE_CODE |-> "ULTRA_AGGRESSIVE",
        PROFILE_NAME |-> "Momentum"] >>

\* Python's `kw in text.upper()` for the texts the model uses: the keywords
\* of the two classifiers that occur in each text.
KeywordsOf ==
    [t \in {"AGGRESSIVE", "CONSERVATIVE", "ULTRA_AGGRESSIVE", "SWING",
            "AGGRESSIVE High growth", "CONSERVATIVE Capital first",
            "ULTRA_AGGRESSIVE Momentum"} |->
        CASE t = "AGGRESSIVE"                 -> {"AGGRESS", "AGGR"}
          [] t = "CONSERVATIVE"               -> {"CONSERV", "CONS"}
          [] t = "ULTRA_AGGRESSIVE"           -> {"ULTRA", "AGGRESS", "AGGR"}
          [] t = "SWING"                      -> {}
          [] t = "AGGRESSIVE High growth"     -> {"AGGRESS", "AGGR", "HIGH"}
          [] t = "CONSERVATIVE Capital first" -> {"CONSERV", "CONS"}
          [] t = "ULTRA_AGGRESSIVE Momentum"  -> {"ULTRA", "AGGRESS", "AGGR"}]

Contains(text, kw) == kw \in KeywordsOf[text]

\* "%s %s" % (code, name)
CodeName ==
    [p \in {"AGGRESSIVE", "CONSERVATIVE", "ULTRA_AGGRESSIVE"} |->
        CASE p = "AGGRESSIVE"       -> "AGGRESSIVE High growth"
          [] p = "CONSERVATIVE"     -> "CONSERVATIVE Capital first"
          [] p = "ULTRA_AGGRESSIVE" -> "ULTRA_AGGRESSIVE Momentum"]

\* risk_from_profile_id that takes every profile for CONSERVATIVE
risk_from_profile_idConservative(pid) == "CONSERVATIVE"

\* v2: risk class from the profile identifier
risk_from_profile_id(pid) ==
    IF Contains(pid, "ULTRA") THEN "ULTRA_AGGRESSIVE"
    ELSE IF Contains(pid, "CONSERV") THEN "CONSERVATIVE"
    ELSE IF Contains(pid, "AGGRESS") THEN "AGGRESSIVE"
    ELSE "BALANCED"

\* v1: profile_id -> risk_class from the code and name of AIW_C_PROFILE;
\* a profile that is not in the table is BALANCED (profiles.get default).
load_profiles(pid) ==
    IF \E i \in 1..Len(profiles) : profiles[i].PROFILE_ID = pid
    THEN LET txt == CodeName[pid]
         IN  IF Contains(txt, "ULTRA") \/ Contains(txt, "HIGH") THEN "ULTRA_AGGRESSIVE"
             ELSE IF Contains(txt, "AGGR") THEN "AGGRESSIVE"
             ELSE IF Contains(txt, "CONS") \/ Contains(txt, "SAFE") THEN "CONSERVATIVE"
             ELSE "BALANCED"
    ELSE "BALANCED"

\* v2 baselines: roi (percent), rr, conf
BASE ==
    [CONSERVATIVE     |-> [roi |-> Rat(275, 100), rr |-> Rat(140, 100), conf |-> 80],
     BALANCED         |-> [roi |-> Rat(450, 100), rr |-> Rat(180, 100), conf |-> 76],
     AGGRESSIVE       |-> [roi |-> Rat(750, 100), rr |-> Rat(150, 100), conf |-> 72],
     ULTRA_AGGRESSIVE |-> [roi |-> Rat(1100, 100), rr |-> Rat(135, 100), conf |-> 70]]

\* v1 defaults: (min_roi_pct, max_roi_pct, rr_target)
risk_params(risk_class) ==
    CASE risk_class = "CONSERVATIVE" -> <<Rat(15, 10), RInt(4), Rat(22, 10)>>
      [] risk_class = "BALANCED"     -> <<RInt(2), RInt(7), Rat(18, 10)>>
      [] risk_class = "AGGRESSIVE"   -> <<RInt(3), RInt(12), Rat(15, 10)>>
      [] OTHER                       -> <<RInt(4), RInt(18), Rat(13, 10)>>

clamp(x, lo, hi) == IF RLt(x, lo) THEN lo ELSE IF RLt(hi, x) THEN hi ELSE x

(***************************************************************************)
(* Table helpers                                                           *)
(***************************************************************************)
Idx(t) == 1..Len(t)

\* WHERE ENV_CODE=? AND RUN_DATE=? AND IS_CREAMY=1
IsCreamyOf(r, env, run_date) ==
    r.ENV_CODE = env /\ r.RUN_DATE = run_date /\ r.IS_CREAMY = 1

\* KeyMatches with the RUN_DATE condition left out of the WHERE clause
KeyMatchesAnyDate(r, u) ==
    /\ r.ENV_CODE = u.ENV_CODE
    /\ r.PROFILE_ID = u.PROFILE_ID
    /\ r.INSTRUMENT_ID = u.INSTRUMENT_ID

\* WHERE ENV_CODE=? AND RUN_DATE=? AND PROFILE_ID=? AND INSTRUMENT_ID=?
KeyMatches(r, u) ==
    /\ r.ENV_CODE = u.ENV_CODE
    /\ r.RUN_DATE = u.RUN_DATE
    /\ r.PROFILE_ID = u.PROFILE_ID
    /\ r.INSTRUMENT_ID = u.INSTRUMENT_ID

\* SELECT ... WHERE ENV_CODE=? AND RUN_DATE=? AND IS_CREAMY=1, in stored order
SelectCreamy(t, env, run_date) ==
    SelectSeq(t, LAMBDA r : IsCreamyOf(r, env, run_date))

Max(S) == CHOOSE x \in S : \A y \in S : y <= x
Min(S) == CHOOSE x \in S : \A y \in S : x <= y

RECURSIVE SetToSeq(_)
\* the elements of a set of integers in ascending order
SetToSeq(S) == IF S = {} THEN <<>> ELSE <<Min(S)>> \o SetToSeq(S \ {Min(S)})

(***************************************************************************)
(* Enrichment v2 (display-rank variant)                                    *)
(***************************************************************************)

\* the "safe fallback" for a group whose maximum rank is <= 1
FallbackMaxRank == 200

\* the floor of the reward:risk denominator, max(1e-9, entry - stop)
RRFloorInv == 1000000000

\* max(1e-9, x): x >= 1/RRFloorInv iff x[1] >= ceil(x[2] / RRFloorInv)
MaxWithFloor(x) ==
    IF x[1] >= (x[2] + RRFloorInv - 1) \div RRFloorInv THEN x ELSE <<1, RRFloorInv>>

\* MaxRankOf taken over the selected rows of every profile
MaxRankOfAnyProfile(t, env, run_date, pid) ==
    LET ranks == {t[i].DISPLAY_RANK[1] : i \in
                    {j \in Idx(t) : /\ IsCreamyOf(t[j], env, run_date)
                                    /\ t[j].DISPLAY_RANK # NULL}}
    IN  IF ranks = {} THEN 0 ELSE Max(ranks)

\* maxr[pid]: COALESCE(MAX(DISPLAY_RANK), 0) over the selected rows of pid
\* (SQL MAX skips NULLs)
MaxRankOf(t, env, run_date, pid) ==
    LET ranks == {t[i].DISPLAY_RANK[1] : i \in
                    {j \in Idx(t) : /\ IsCreamyOf(t[j], env, run_date)
                                    /\ t[j].PROFILE_ID = pid
                                    /\ t[j].DISPLAY_RANK # NULL}}
    IN  IF ranks = {} THEN 0 ELSE Max(ranks)

\* StrengthV2 with the top rank at 0.0 and the bottom at 1.0
StrengthV2Inverted(dr, mx0) ==
    LET mx  == IF mx0 <= 1 THEN FallbackMaxRank ELSE mx0
        dr1 == IF dr > 1 THEN dr ELSE 1
    IN  Rat(dr1 - 1, mx - 1)

\* StrengthV2 without max(1, dr)
StrengthV2NoFloor(dr, mx0) ==
    LET mx  == IF mx0 <= 1 THEN FallbackMaxRank ELSE mx0
    IN  RSub(RInt(1), Rat(dr - 1, mx - 1))

\* strength: top rank -> 1.0, bottom -> 0.0
StrengthV2(dr, mx0) ==
    LET mx  == IF mx0 <= 1 THEN FallbackMaxRank ELSE mx0
        dr1 == IF dr > 1 THEN dr ELSE 1
    IN  RSub(RInt(1), Rat(dr1 - 1, mx - 1))

\* RoiV2 with the factor 0.50 + 1.00 * strength
RoiV2Wide(b, strength) ==
    clamp(RMul(b.roi, RAdd(Rat(50, 100), strength)),
          RMul(b.roi, Rat(60, 100)), RMul(b.roi, Rat(150, 100)))

\* expected return percent: baseline * (0.70 + 0.60 * strength), clamped
RoiV2(b, strength) ==
    clamp(RMul(b.roi, RAdd(Rat(70, 100), RMul(Rat(60, 100), strength))),
          RMul(b.roi, Rat(60, 100)), RMul(b.roi, Rat(150, 100)))

\* DownsideV2 with roi * rr_target in place of roi / rr_target
DownsideV2Times(b, roi) == clamp(RMul(roi, b.rr), Rat(75, 100), RInt(15))

\* DownsideV2 clamped to [0.75, 5.0]
DownsideV2Tight(b, roi) == clamp(RDiv(roi, b.rr), Rat(75, 100), RInt(5))

\* downside percent: roi / rr_target, clamped to [0.75, 15.0]
DownsideV2(b, roi) == clamp(RDiv(roi, b.rr), Rat(75, 100), RInt(15))

TargetOf(entry, roi) == RMul(entry, RAdd(RInt(1), RDiv(roi, RInt(100))))
StopOf(entry, downside) == RMul(entry, RSub(RInt(1), RDiv(downside, RInt(100))))

\* confidence varies with strength, RR and downside; clamped to [35, 95]
ConfV2(b, strength, rr, downside) ==
    LET c0 == RInt(b.conf)
        c1 == RAdd(c0, RMul(RSub(strength, Rat(1, 2)), RInt(10)))
        c2 == RAdd(c1, RMul(RSub(clamp(rr, Rat(1, 2), RInt(3)), Rat(3, 2)), RInt(4)))
        c3 == RSub(c2, RMul(RMax(RInt(0), RSub(downside, RInt(6))), Rat(12, 10)))
    IN  clamp(c3, RInt(35), RInt(95))

\* everything the loop body computes for one row with entry > 0
MetricsV2(pid, entry, dr, mx0) ==
    LET risk     == risk_from_profile_id(pid)
        b        == BASE[risk]
        strength == StrengthV2(dr, mx0)
        roi      == RoiV2(b, strength)
        downside == DownsideV2(b, roi)
        target   == TargetOf(entry, roi)
        stop     == StopOf(entry, downside)
        rr       == RDiv(RSub(target, entry), MaxWithFloor(RSub(entry, stop)))
        conf     == ConfV2(b, strength, rr, downside)
    IN  [risk |-> risk, strength |-> strength, roi |-> roi, downside |-> downside,
         target |-> target, stop |-> stop, rr |-> rr, conf |-> conf,
         conf_int |-> RoundInt(conf)]

\* the f-string rationale: every number in its printed form
ReasonV2(pid, entry, m) ==
    << <<"V2", pid, m.risk, Fmt2(m.roi), Fmt2(m.downside), Fmt2(m.rr), m.conf_int,
         Fmt2(entry), Fmt2(m.target), Fmt2(m.stop)>> >>

\* UpdateTupleV2 with roi and conf in each other's position of the tuple
UpdateTupleV2Swapped(r, m, now) ==
    [TARGET_PRICE |-> m.target, STOP_LOSS |-> m.stop, CONFIDENCE |-> m.roi,
     EXPECTED_RETURN_PCT |-> m.conf,
     AI_REASON |-> ReasonV2(r.PROFILE_ID, FloatOr0(r.ENTRY_PRICE), m),
     UPDATED_AT |-> now,
     ENV_CODE |-> r.ENV_CODE, RUN_DATE |-> r.RUN_DATE,
     PROFILE_ID |-> r.PROFILE_ID, INSTRUMENT_ID |-> r.INSTRUMENT_ID]

\* the tuple appended to `updates` for one row
UpdateTupleV2(r, m, now) ==
    [TARGET_PRICE |-> m.target, STOP_LOSS |-> m.stop, CONFIDENCE |-> m.conf,
     EXPECTED_RETURN_PCT |-> m.roi,
     AI_REASON |-> ReasonV2(r.PROFILE_ID, FloatOr0(r.ENTRY_PRICE), m),
     UPDATED_AT |-> now,
     ENV_CODE |-> r.ENV_CODE, RUN_DATE |-> r.RUN_DATE,
     PROFILE_ID |-> r.PROFILE_ID, INSTRUMENT_ID |-> r.INSTRUMENT_ID]

\* UpdatesV2 with the entry price read from TARGET_PRICE (to the unit)
UpdatesV2FromTarget(t, env, run_date, now) ==
    LET rows == SelectCreamy(t, env, run_date)
        E(r) == RInt(RoundInt(FloatOr0(r.TARGET_PRICE)))
        kept == SelectSeq(rows, LAMBDA r : RLt(RInt(0), E(r)))
    IN  [i \in Idx(kept) |->
            UpdateTupleV2(kept[i],
                          MetricsV2(kept[i].PROFILE_ID, E(kept[i]),
                                    IntOr0(kept[i].DISPLAY_RANK),
                                    MaxRankOf(t, env, run_date, kept[i].PROFILE_ID)),
                          now)]

\* the loop over the selected rows: rows with entry <= 0 are skipped
UpdatesV2(t, env, run_date, now) ==
    LET rows == SelectCreamy(t, env, run_date)
        kept == SelectSeq(rows, LAMBDA r : RLt(RInt(0), FloatOr0(r.ENTRY_PRICE)))
    IN  [i \in Idx(kept) |->
            UpdateTupleV2(kept[i],
                          MetricsV2(kept[i].PROFILE_ID, FloatOr0(kept[i].ENTRY_PRICE),
                                    IntOr0(kept[i].DISPLAY_RANK),
                                    MaxRankOf(t, env, run_date, kept[i].PROFILE_ID)),
                          now)]

\* UPDATE ... SET six columns WHERE the four key columns match
ApplyUpdate(r, u) ==
    IF KeyMatches(r, u)
    THEN [r EXCEPT !.TARGET_PRICE = u.TARGET_PRICE, !.STOP_LOSS = u.STOP_LOSS,
                   !.CONFIDENCE = u.CONFIDENCE,
                   !.EXPECTED_RETURN_PCT = u.EXPECTED_RETURN_PCT,
                   !.AI_REASON = u.AI_REASON, !.UPDATED_AT = u.UPDATED_AT]
    ELSE r

RECURSIVE ApplyAll(_, _)
\* executemany: the updates applied one after the other
ApplyAll(r, us) == IF us = <<>> THEN r ELSE ApplyAll(ApplyUpdate(r, Head(us)), Tail(us))

ExecuteMany(t, us) == [i \in Idx(t) |-> ApplyAll(t[i], us)]

(***************************************************************************)
(* Enrichment v1 (ranking-score variant)                                   *)
(***************************************************************************)
\* norm_score that returns 0.0 for a group whose scores are all equal
norm_scoreFlatZero(score, smin, smax) ==
    IF RLe(smax, smin) THEN RInt(0)
    ELSE clamp(RDiv(RSub(score, smin), RSub(smax, smin)), RInt(0), RInt(1))

norm_score(score, smin, smax) ==
    IF RLe(smax, smin) THEN Rat(1, 2)
    ELSE clamp(RDiv(RSub(score, smin), RSub(smax, smin)), RInt(0), RInt(1))

RECURSIVE RMinOf(_)
RMinOf(q) == IF Len(q) = 1 THEN q[1] ELSE RMin(q[1], RMinOf(Tail(q)))
RECURSIVE RMaxOf(_)
RMaxOf(q) == IF Len(q) = 1 THEN q[1] ELSE RMax(q[1], RMaxOf(Tail(q)))

\* Every pattern of patch_reason is a raw string with doubled backslashes, so
\* it matches only text that holds a literal backslash: on ordinary rationale
\* text the five re.sub calls change nothing and the metric tag is appended.
\* A rationale is the sequence of its fragments.
patch_reason(reason, roi, conf, bucket, rr) ==
    Append(reason, <<"V1", conf, Fmt2(rr), bucket>>)

\* everything the inner loop computes for one row of a profile's group
MetricsV1(risk_class, entry, score, smin, smax) ==
    LET rp        == risk_params(risk_class)
        roi_min   == rp[1]
        roi_max   == rp[2]
        rr_target == rp[3]
        n         == norm_score(score, smin, smax)
        roi       == Round2(RAdd(roi_min, RMul(RSub(roi_max, roi_min), n)))
        sl_pct    == RDiv(roi, rr_target)
        target    == TargetOf(entry, roi)
        stop      == StopOf(entry, sl_pct)
        conf      == RoundInt(clamp(RAdd(RAdd(RInt(50), RMul(n, RInt(35))),
                                         RMul(RSub(rr_target, RInt(1)), RInt(10))),
                                    RInt(1), RInt(99)))
        rr        == IF RLt(stop, entry) /\ RLt(entry, target)
                     THEN RDiv(RSub(target, entry), RSub(entry, stop))
                     ELSE RInt(0)
    IN  [risk |-> risk_class, strength |-> n, roi |-> roi, downside |-> sl_pct,
         target |-> target, stop |-> stop, rr |-> rr, conf |-> RInt(conf),
         conf_int |-> conf]

\* the parameters of one conn.execute(UPDATE ...)
UpdateTupleV1(r, m, now) ==
    [TARGET_PRICE |-> m.target, STOP_LOSS |-> m.stop,
     EXPECTED_RETURN_PCT |-> m.roi, CONFIDENCE |-> m.conf,
     AI_REASON |-> patch_reason(r.AI_REASON, m.roi, m.conf_int, m.risk, m.rr),
     UPDATED_AT |-> now,
     ENV_CODE |-> r.ENV_CODE, RUN_DATE |-> r.RUN_DATE,
     PROFILE_ID |-> r.PROFILE_ID, INSTRUMENT_ID |-> r.INSTRUMENT_ID]

\* scores of the group by_profile[pid]
GroupScores(rows, pid) ==
    LET plist == SelectSeq(rows, LAMBDA r : r.PROFILE_ID = pid)
    IN  [i \in Idx(plist) |-> FloatOr0(plist[i].RANKING_SCORE)]

\* one UPDATE per selected row (no row is skipped)
UpdatesV1(t, env, run_date, now) ==
    LET rows == SelectCreamy(t, env, run_date)
    IN  [i \in Idx(rows) |->
            LET scores == GroupScores(rows, rows[i].PROFILE_ID)
            IN  UpdateTupleV1(rows[i],
                              MetricsV1(load_profiles(rows[i].PROFILE_ID),
                                        FloatOr0(rows[i].ENTRY_PRICE),
                                        FloatOr0(rows[i].RANKING_SCORE),
                                        RMinOf(scores), RMaxOf(scores)),
                              now)]

(***************************************************************************)
(* Historical outcome simulator (backtest)                                 *)
(***************************************************************************)

\* pct(a, b): a / b * 100, and 0.0 when b is 0
pct(a, b) == IF b[1] = 0 THEN RInt(0) ELSE RMul(RDiv(a, b), RInt(100))

\* string order of the profile identifiers (ORDER BY PROFILE_ID, sorted())
ProfileOrd ==
    [AGGRESSIVE |-> 1, CONSERVATIVE |-> 2, SWING |-> 3, ULTRA_AGGRESSIVE |-> 4]

\* ORDER BY PROFILE_ID, DISPLAY_RANK ASC: NULL ranks sort first
OrderedBefore(a, b) ==
    \/ ProfileOrd[a.PROFILE_ID] < ProfileOrd[b.PROFILE_ID]
    \/ /\ a.PROFILE_ID = b.PROFILE_ID
       /\ \/ a.DISPLAY_RANK = NULL /\ b.DISPLAY_RANK # NULL
          \/ /\ a.DISPLAY_RANK # NULL /\ b.DISPLAY_RANK # NULL
             /\ a.DISPLAY_RANK[1] < b.DISPLAY_RANK[1]

RECURSIVE InsertOrdered(_, _)
\* r placed after every row that is not ordered after it (ties keep stored order)
InsertOrdered(q, r) ==
    IF q = <<>> THEN <<r>>
    ELSE IF OrderedBefore(r, Head(q)) THEN <<r>> \o q
    ELSE <<Head(q)>> \o InsertOrdered(Tail(q), r)

\* SortRows without the ORDER BY: the rows in stored order
SortRowsStored(q) == q

RECURSIVE SortRows(_)
SortRows(q) ==
    IF q = <<>> THEN <<>>
    ELSE InsertOrdered(SortRows(SubSeq(q, 1, Len(q) - 1)), q[Len(q)])

\* lst[:topn] of every profile's group byp[pid], groups in first-seen order
TakeTopN(rows, topn) ==
    LET keep == {i \in Idx(rows) :
                    Cardinality({j \in 1..(i - 1) :
                                    rows[j].PROFILE_ID = rows[i].PROFILE_ID}) < topn}
        ks == SetToSeq(keep)
    IN  [i \in Idx(ks) |-> rows[ks[i]]]

\* MaxRunDate without the IS_CREAMY=1 condition
MaxRunDateAnyRow(t, env) ==
    LET ds == {t[i].RUN_DATE : i \in {j \in Idx(t) : t[j].ENV_CODE = env}}
    IN  IF ds = {} THEN NULL ELSE <<Max(ds)>>

\* SELECT MAX(RUN_DATE) ... WHERE ENV_CODE=? AND IS_CREAMY=1 (NULL when no row)
MaxRunDate(t, env) ==
    LET ds == {t[i].RUN_DATE : i \in {j \in Idx(t) : t[j].ENV_CODE = env /\ t[j].IS_CREAMY = 1}}
    IN  IF ds = {} THEN NULL ELSE <<Max(ds)>>

\* SELECT DISTINCT RUN_DATE ... AND RUN_DATE >= start ORDER BY RUN_DATE
RunDatesFrom(t, env, start) ==
    SetToSeq({t[i].RUN_DATE : i \in {j \in Idx(t) :
                /\ t[j].ENV_CODE = env /\ t[j].IS_CREAMY = 1 /\ t[j].RUN_DATE >= start}})

RECURSIVE WorkList(_, _, _, _)
\* the candidates the nested loops visit, in visiting order
WorkList(t, env, rds, topn) ==
    IF rds = <<>> THEN <<>>
    ELSE TakeTopN(SortRows(SelectCreamy(t, env, Head(rds))), topn)
         \o WorkList(t, env, Tail(rds), topn)

RECURSIVE InsertBar(_, _)
InsertBar(q, x) ==
    IF q = <<>> THEN <<x>>
    ELSE IF x.TRADE_DATE < Head(q).TRADE_DATE THEN <<x>> \o q
    ELSE <<Head(q)>> \o InsertBar(Tail(q), x)

RECURSIVE SortBars(_)
SortBars(q) ==
    IF q = <<>> THEN <<>>
    ELSE InsertBar(SortBars(SubSeq(q, 1, Len(q) - 1)), q[Len(q)])

\* ForwardBars with TRADE_DATE >= ? in place of TRADE_DATE > ?
ForwardBarsFromRunDate(bars, instrument, rd, horizon) ==
    LET q == SortBars(SelectSeq(bars, LAMBDA x :
                 x.INSTRUMENT_ID = instrument /\ x.TRADE_DATE >= rd))
    IN  SubSeq(q, 1, IF Len(q) < horizon THEN Len(q) ELSE horizon)

\* ForwardBars without the ORDER BY: LIMIT applied in stored order
ForwardBarsStoredOrder(bars, instrument, rd, horizon) ==
    LET q == SelectSeq(bars, LAMBDA x :
                 x.INSTRUMENT_ID = instrument /\ x.TRADE_DATE > rd)
    IN  SubSeq(q, 1, IF Len(q) < horizon THEN Len(q) ELSE horizon)

\* SELECT ... WHERE INSTRUMENT_ID=? AND TRADE_DATE>? ORDER BY TRADE_DATE LIMIT ?
ForwardBars(bars, instrument, rd, horizon) ==
    LET q == SortBars(SelectSeq(bars, LAMBDA x :
                 x.INSTRUMENT_ID = instrument /\ x.TRADE_DATE > rd))
    IN  SubSeq(q, 1, IF Len(q) < horizon THEN Len(q) ELSE horizon)

\* S(profile): a fresh accumulator
NewStat ==
    [days |-> {}, n |-> 0, sum_edge |-> RInt(0), sum_conf |-> RInt(0),
     sum_roi |-> RInt(0), tgt_hit |-> 0, sl_hit |-> 0, amb |-> 0, none |-> 0,
     win |-> 0, lose |-> 0, sum_realized |-> RInt(0)]

StatOf(stats, pid) == IF pid \in DOMAIN stats THEN stats[pid] ELSE NewStat

\* ResolveAmbiguous with the stop-first branch booking the target return
ResolveAmbiguousTargetReturn(amb_rule, entry, target, stop) ==
    IF amb_rule = "skip"
    THEN [sl_hit |-> 0, lose |-> 0, realized |-> RInt(0), added |-> FALSE]
    ELSE IF amb_rule = "half_half"
    THEN [sl_hit |-> 0, lose |-> 0,
          realized |-> RMul(Rat(1, 2), RAdd(pct(RSub(target, entry), entry),
                                            pct(RSub(stop, entry), entry))),
          added |-> TRUE]
    ELSE [sl_hit |-> 1, lose |-> 1, realized |-> pct(RSub(target, entry), entry),
          added |-> TRUE]

\* ResolveAmbiguous with the half-half branch summing instead of averaging
ResolveAmbiguousSum(amb_rule, entry, target, stop) ==
    IF amb_rule = "skip"
    THEN [sl_hit |-> 0, lose |-> 0, realized |-> RInt(0), added |-> FALSE]
    ELSE IF amb_rule = "half_half"
    THEN [sl_hit |-> 0, lose |-> 0,
          realized |-> RAdd(pct(RSub(target, entry), entry),
                            pct(RSub(stop, entry), entry)),
          added |-> TRUE]
    ELSE [sl_hit |-> 1, lose |-> 1, realized |-> pct(RSub(stop, entry), entry),
          added |-> TRUE]

\* ResolveAmbiguous with the stop-first branch booking the stop distance as a gain
ResolveAmbiguousStopGain(amb_rule, entry, target, stop) ==
    IF amb_rule = "skip"
    THEN [sl_hit |-> 0, lose |-> 0, realized |-> RInt(0), added |-> FALSE]
    ELSE IF amb_rule = "half_half"
    THEN [sl_hit |-> 0, lose |-> 0,
          realized |-> RMul(Rat(1, 2), RAdd(pct(RSub(target, entry), entry),
                                            pct(RSub(stop, entry), entry))),
          added |-> TRUE]
    ELSE [sl_hit |-> 1, lose |-> 1, realized |-> pct(RSub(entry, stop), entry),
          added |-> TRUE]

\* ResolveAmbiguous whose stop-first branch counts the stop but no loss
ResolveAmbiguousNoLose(amb_rule, entry, target, stop) ==
    IF amb_rule = "skip"
    THEN [sl_hit |-> 0, lose |-> 0, realized |-> RInt(0), added |-> FALSE]
    ELSE IF amb_rule = "half_half"
    THEN [sl_hit |-> 0, lose |-> 0,
          realized |-> RMul(Rat(1, 2), RAdd(pct(RSub(target, entry), entry),
                                            pct(RSub(stop, entry), entry))),
          added |-> TRUE]
    ELSE [sl_hit |-> 1, lose |-> 0, realized |-> pct(RSub(stop, entry), entry),
          added |-> TRUE]

\* the branch for a candidate whose bars touch both levels: what it adds to
\* sl_hit, lose and sum_realized, and whether the realized return is added
ResolveAmbiguous(amb_rule, entry, target, stop) ==
    IF amb_rule = "skip"
    THEN [sl_hit |-> 0, lose |-> 0, realized |-> RInt(0), added |-> FALSE]
    ELSE IF amb_rule = "half_half"
    THEN [sl_hit |-> 0, lose |-> 0,
          realized |-> RMul(Rat(1, 2), RAdd(pct(RSub(target, entry), entry),
                                            pct(RSub(stop, entry), entry))),
          added |-> TRUE]
    ELSE [sl_hit |-> 1, lose |-> 1, realized |-> pct(RSub(stop, entry), entry),
          added |-> TRUE]

\* HitTarget with > in place of >=
HitTargetStrict(target, max_high) == RLt(RInt(0), target) /\ RLt(target, max_high)

\* hit_t and hit_s: a level counts only when it is set (> 0)
HitTarget(target, max_high) == RLt(RInt(0), target) /\ RLe(target, max_high)
HitStop(stop, min_low) == RLt(RInt(0), stop) /\ RLe(min_low, stop)

\* the body of the innermost loop for candidate r of run-date r.RUN_DATE
Account(st0, r, bars, args) ==
    LET entry  == FloatOr0(r.ENTRY_PRICE)
        target == FloatOr0(r.TARGET_PRICE)
        stop   == FloatOr0(r.STOP_LOSS)
        roi    == FloatOr0(r.EXPECTED_RETURN_PCT)
        conf   == FloatOr0(r.CONFIDENCE)
        downside == pct(RSub(entry, stop), entry)
        edge   == RSub(roi, downside)
        st     == [st0 EXCEPT !.days = @ \cup {r.RUN_DATE}, !.n = @ + 1,
                              !.sum_edge = RAdd(@, edge), !.sum_conf = RAdd(@, conf),
                              !.sum_roi = RAdd(@, roi)]
        eods   == ForwardBars(bars, r.INSTRUMENT_ID, r.RUN_DATE, args.horizon)
    IN  IF eods = <<>> THEN [st EXCEPT !.none = @ + 1]
        ELSE
        LET max_high   == RMaxOf([i \in Idx(eods) |-> FloatOr0(eods[i].HIGH_PRICE)])
            min_low    == RMinOf([i \in Idx(eods) |-> FloatOr0(eods[i].LOW_PRICE)])
            close_last == FloatOr0(eods[Len(eods)].CLOSE_PRICE)
            hit_t      == HitTarget(target, max_high)
            hit_s      == HitStop(stop, min_low)
        IN  IF hit_t /\ hit_s
            THEN LET a == ResolveAmbiguous(args.amb_rule, entry, target, stop)
                 IN  [st EXCEPT !.amb = @ + 1, !.sl_hit = @ + a.sl_hit,
                                !.lose = @ + a.lose,
                                !.sum_realized =
                                    IF a.added THEN RAdd(@, a.realized) ELSE @]
            ELSE IF hit_t
            THEN [st EXCEPT !.tgt_hit = @ + 1, !.win = @ + 1,
                            !.sum_realized = RAdd(@, pct(RSub(target, entry), entry))]
            ELSE IF hit_s
            THEN [st EXCEPT !.sl_hit = @ + 1, !.lose = @ + 1,
                            !.sum_realized = RAdd(@, pct(RSub(stop, entry), entry))]
            ELSE [st EXCEPT !.none = @ + 1,
                            !.sum_realized = RAdd(@, pct(RSub(close_last, entry), entry))]

\* round(x, 3), in thousandths
Round3(x) == Rat(RoundInt(RMul(x, RInt(1000))), 1000)

\* one row of the per-profile summary
SummaryRow(pid, st, amb_rule) ==
    LET n == RInt(st.n)
    IN  [profile |-> pid, days |-> Cardinality(st.days), trades |-> st.n,
         avg_edge |-> Round3(RDiv(st.sum_edge, n)),
         avg_conf |-> Round3(RDiv(st.sum_conf, n)),
         avg_roi |-> Round3(RDiv(st.sum_roi, n)),
         tgt_hit_pct |-> Round3(pct(RInt(st.tgt_hit), n)),
         sl_hit_pct |-> Round3(pct(RInt(st.sl_hit), n)),
         amb_pct |-> Round3(pct(RInt(st.amb), n)),
         none_pct |-> Round3(pct(RInt(st.none), n)),
         win_pct |-> Round3(pct(RInt(st.win), n)),
         lose_pct |-> Round3(pct(RInt(st.lose), n)),
         realized7d_avg |-> Round3(RDiv(st.sum_realized, RInt(IF st.n < 1 THEN 1 ELSE st.n))),
         amb_rule |-> amb_rule]

\* rows_out: the profiles of stats in sorted order, those with n = 0 left out
RowsOut(stats, amb_rule) ==
    LET ords == SetToSeq({ProfileOrd[pid] : pid \in {q \in DOMAIN stats : stats[q].n # 0}})
        PidAt(k) == CHOOSE pid \in DOMAIN stats : ProfileOrd[pid] = k
    IN  [i \in Idx(ords) |-> SummaryRow(PidAt(ords[i]), stats[PidAt(ords[i])], amb_rule)]

(***************************************************************************)
(* Profile expansion                                                       *)
(***************************************************************************)

\* SELECT ... WHERE ENV_CODE=? AND RUN_DATE=? AND PROFILE_ID=? AND IS_CREAMY=1
SelectedOf(t, env, run_date, pid) ==
    SelectSeq(t, LAMBDA r : IsCreamyOf(r, env, run_date) /\ r.PROFILE_ID = pid)

\* GROUP BY PROFILE_ID ORDER BY c DESC, PROFILE_ID ASC LIMIT 1 (NULL: no row)
BaseProfile(t, env, run_date) ==
    LET pids == {t[i].PROFILE_ID : i \in {j \in Idx(t) : IsCreamyOf(t[j], env, run_date)}}
        c(p) == Len(SelectedOf(t, env, run_date, p))
    IN  IF pids = {} THEN NULL
        ELSE <<CHOOSE p \in pids : \A q \in pids :
                  \/ c(q) < c(p)
                  \/ c(q) = c(p) /\ ProfileOrd[p] <= ProfileOrd[q]>>

\* SELECT PROFILE_ID FROM AIW_C_PROFILE ORDER BY PROFILE_ID
AllProfiles(pt) ==
    LET ords == SetToSeq({ProfileOrd[pt[i].PROFILE_ID] : i \in Idx(pt)})
    IN  [i \in Idx(ords) |->
            CHOOSE pid \in {pt[j].PROFILE_ID : j \in Idx(pt)} : ProfileOrd[pid] = ords[i]]

\* Exists without the check: every other profile is taken to lack rows
ExistsNever(t, env, run_date, pid) == 0

\* SELECT COUNT(*) ... WHERE ENV_CODE=? AND RUN_DATE=? AND PROFILE_ID=? AND IS_CREAMY=1
Exists(t, env, run_date, pid) == Len(SelectedOf(t, env, run_date, pid))

\* CloneRow that does not copy the selection flag
CloneRowUnselected(r, pid, now) ==
    [r EXCEPT !.PROFILE_ID = pid,
              !.CREATED_AT = IF @ = NULL THEN <<now>> ELSE @,
              !.UPDATED_AT = now, !.IS_CREAMY = 0]

\* one row of the INSERT ... SELECT: the profile is substituted, CREATED_AT is
\* COALESCE(CREATED_AT, now), UPDATED_AT is now, every other column is copied
CloneRow(r, pid, now) ==
    [r EXCEPT !.PROFILE_ID = pid,
              !.CREATED_AT = IF @ = NULL THEN <<now>> ELSE @,
              !.UPDATED_AT = now]

\* the rows the INSERT ... SELECT adds for profile pid
Clones(t, env, run_date, base, pid, now) ==
    LET src == SelectedOf(t, env, run_date, base)
    IN  [i \in Idx(src) |-> CloneRow(src[i], pid, now)]

\* The candidates table is keyed by (environment, run-date, profile,
\* instrument): an INSERT of a row whose key is already stored fails.
KeyConflict(t, rows) ==
    \E i \in Idx(t), j \in Idx(rows) : KeyMatches(t[i], rows[j])

(***************************************************************************)
(* The bounded world                                                       *)
(***************************************************************************)
MaxRows == 3      \* rows of AIW_A_CREAMY_LAYER
MaxRuns == 2      \* script invocations in one behaviour

\* the (environment, run-date) pairs a script is invoked for
Targets == { <<"SIM", 1>>, <<"SIM", 2>>, <<"LIVE", 1>> }

\* the keys (environment, run-date, profile, instrument) rows may have
KeySeq ==
    << <<"SIM", 1, "CONSERVATIVE", "I1">>, <<"SIM", 1, "CONSERVATIVE", "I2">>,
       <<"SIM", 1, "CONSERVATIVE", "I3">>, <<"SIM", 1, "ULTRA_AGGRESSIVE", "I1">>,
       <<"SIM", 2, "CONSERVATIVE", "I1">>, <<"LIVE", 1, "AGGRESSIVE", "I1">>,
       <<"LIVE", 1, "SWING", "I1">> >>

\* a row as the upstream ranking step creates it; rows of instrument I1 carry
\* economics and a rationale from upstream, the others carry none
RawRow(k, entry, rank, score, is_creamy) ==
    [ENV_CODE |-> k[1], RUN_DATE |-> k[2], PROFILE_ID |-> k[3], INSTRUMENT_ID |-> k[4],
     ENTRY_PRICE |-> entry,
     TARGET_PRICE |-> IF k[4] = "I1" THEN RInt(110) ELSE NULL,
     STOP_LOSS |-> IF k[4] = "I1" THEN RInt(95) ELSE NULL,
     CONFIDENCE |-> IF k[4] = "I1" THEN RInt(60) ELSE NULL,
     EXPECTED_RETURN_PCT |-> IF k[4] = "I1" THEN RInt(10) ELSE NULL,
     AI_REASON |-> IF k[4] = "I1" THEN << <<"RAW", "momentum">> >> ELSE <<>>,
     RANKING_SCORE |-> score, IS_CREAMY |-> is_creamy, DISPLAY_RANK |-> rank,
     CREATED_AT |-> <<0>>, UPDATED_AT |-> 0]

\* <<ENTRY_PRICE, DISPLAY_RANK, RANKING_SCORE, IS_CREAMY>> of a row
PlainVariant == <<RInt(100), <<1>>, RInt(9), 1>>

RowVariants ==
    { PlainVariant,
      <<RInt(100), <<2>>, RInt(7), 1>>,
      <<RInt(100), <<3>>, RInt(3), 1>>,
      <<RInt(0),   <<2>>, RInt(7), 1>>,
      <<NULL,      NULL,  NULL,    1>>,
      <<RInt(100), <<1>>, RInt(9), 0>> }

\* the rows of (SIM, 1) vary: the first two instruments of CONSERVATIVE take
\* every variant, the third is the weakest of its group or has no entry
\* price, the ULTRA_AGGRESSIVE row is plain or empty; the rows of the other
\* pairs are plain
VariantsOf(i) ==
    CASE i \in {1, 2} -> RowVariants
      [] i = 3 -> { <<RInt(100), <<3>>, RInt(3), 1>>, <<RInt(0), <<2>>, RInt(7), 1>> }
      [] i = 4 -> { PlainVariant, <<NULL, NULL, NULL, 1>> }
      [] OTHER -> {PlainVariant}

\* the table holding, in key order, the row f[k] for every chosen key k
TableOf(S, f) ==
    LET ks == SetToSeq(S)
    IN  [i \in Idx(ks) |->
            RawRow(KeySeq[ks[i]], f[ks[i]][1], f[ks[i]][2], f[ks[i]][3], f[ks[i]][4])]

SimIdle == [pc |-> "idle"]

\* no writer holds a connection
TxIdle == [pc |-> "idle"]

\* the summary file left by an earlier backtest
PreviousSummary == [fieldnames |-> "previous", rows |-> <<>>]

Init ==
    /\ \E S \in {T \in SUBSET (1..Len(KeySeq)) : Cardinality(T) <= MaxRows} :
         \E f \in [S -> RowVariants] :
            /\ \A i \in S : f[i] \in VariantsOf(i)
            /\ creamy = TableOf(S, f)
    /\ eod = <<>>
    /\ clock = 1
    /\ log = [tag |-> "NONE"]
    /\ sim = SimIdle
    /\ out = PreviousSummary
    /\ profiles = AIW_C_PROFILE
    /\ txn = TxIdle

(***************************************************************************)
(* The enrichment scripts, one action per invocation                       *)
(***************************************************************************)
EnrichV2(env, run_date) ==
    /\ clock <= MaxRuns
    /\ sim.pc = "idle"
    /\ IF SelectCreamy(creamy, env, run_date) = <<>>
       THEN /\ creamy' = creamy
            /\ log' = [tag |-> "ENRICH_V2", msg |-> "No creamy rows", n |-> 0,
                       env |-> env, run_date |-> run_date, now |-> clock]
       ELSE LET updates == UpdatesV2(creamy, env, run_date, clock)
            IN  /\ creamy' = ExecuteMany(creamy, updates)
                /\ log' = [tag |-> "ENRICH_V2", msg |-> "Updated", n |-> Len(updates),
                           env |-> env, run_date |-> run_date, now |-> clock]
    /\ clock' = clock + 1
    /\ UNCHANGED <<eod, sim, out, profiles, txn>>

EnrichV1(env, run_date) ==
    /\ clock <= MaxRuns
    /\ sim.pc = "idle"
    /\ IF SelectCreamy(creamy, env, run_date) = <<>>
       THEN /\ creamy' = creamy
            /\ log' = [tag |-> "ENRICH", msg |-> "No creamy rows", n |-> 0,
                       env |-> env, run_date |-> run_date, now |-> clock]
       ELSE LET updates == UpdatesV1(creamy, env, run_date, clock)
            IN  /\ creamy' = ExecuteMany(creamy, updates)
                /\ log' = [tag |-> "ENRICH", msg |-> "Updated", n |-> Len(updates),
                           env |-> env, run_date |-> run_date, now |-> clock]
    /\ clock' = clock + 1
    /\ UNCHANGED <<eod, sim, out, profiles, txn>>

Next ==
    \/ \E tg \in Targets : EnrichV2(tg[1], tg[2])
    \/ \E tg \in Targets : EnrichV1(tg[1], tg[2])

Spec == Init /\ [][Next]_vars

(***************************************************************************)
(* The backtest, one action per loop iteration                             *)
(***************************************************************************)
MaxSimRows == 2   \* rows of AIW_A_CREAMY_LAYER the backtest reads
MaxBars == 2      \* rows of AIW_H_PRICE_EOD

SimKeySeq ==
    << <<"SIM", 1, "CONSERVATIVE", "I1">>, <<"SIM", 1, "CONSERVATIVE", "I2">>,
       <<"SIM", 2, "CONSERVATIVE", "I1">>, <<"SIM", 1, "ULTRA_AGGRESSIVE", "I1">>,
       <<"LIVE", 1, "CONSERVATIVE", "I1">> >>

\* a candidate as the backtest finds it: <<entry, target, stop, rank, selected>>
SimRow(k, v) ==
    [ENV_CODE |-> k[1], RUN_DATE |-> k[2], PROFILE_ID |-> k[3], INSTRUMENT_ID |-> k[4],
     ENTRY_PRICE |-> v[1], TARGET_PRICE |-> v[2], STOP_LOSS |-> v[3],
     CONFIDENCE |-> RInt(60), EXPECTED_RETURN_PCT |-> RInt(10),
     AI_REASON |-> <<>>, RANKING_SCORE |-> NULL, IS_CREAMY |-> v[5],
     DISPLAY_RANK |-> v[4], CREATED_AT |-> <<0>>, UPDATED_AT |-> 0]

SimPlain == <<RInt(100), RInt(110), RInt(95), <<1>>, 1>>

SimVariantsOf(i) ==
    IF i = 1
    THEN { SimPlain,
           <<RInt(100), NULL,      RInt(95), <<1>>, 1>>,
           <<RInt(100), RInt(110), NULL,     NULL,  1>>,
           <<RInt(0),   RInt(110), RInt(95), <<2>>, 1>>,
           <<RInt(100), RInt(110), RInt(95), <<1>>, 0>> }
    ELSE IF i = 2
    THEN { SimPlain, <<RInt(100), RInt(110), RInt(95), <<2>>, 1>> }
    ELSE { SimPlain }

SimTableOf(S, f) ==
    LET ks == SetToSeq(S)
    IN  [i \in Idx(ks) |-> SimRow(SimKeySeq[ks[i]], f[ks[i]])]

\* price bars: <<instrument, trade date, high, low, close>>
BarSlots ==
    << {<<"I1", 1, 112, 94, 104>>},
       {<<"I1", 2, 112, 97, 104>>, <<"I1", 2, 112, 94, 104>>,
        <<"I1", 2, 105, 94, 100>>, <<"I1", 2, 105, 97, 101>>},
       {<<"I1", 3, 112, 97, 108>>, <<"I1", 3, 110, 95, 99>>},
       {<<"I2", 2, 112, 97, 104>>} >>

Bar(b) ==
    [INSTRUMENT_ID |-> b[1], TRADE_DATE |-> b[2], HIGH_PRICE |-> RInt(b[3]),
     LOW_PRICE |-> RInt(b[4]), CLOSE_PRICE |-> RInt(b[5])]

\* the newest bars are stored first, so stored order is not date order
BarTableOf(S, f) ==
    LET ks == SetToSeq(S)
    IN  [i \in Idx(ks) |-> Bar(f[ks[Len(ks) + 1 - i]])]

SimArgs ==
    [env : {"SIM"}, days : {0, 365}, horizon : {1, 2}, topn : {1, 2},
     amb_rule : {"stop_first", "skip", "half_half"}]
    \cup {[env |-> "LIVE", days |-> 365, horizon |-> 1, topn |-> 1,
           amb_rule |-> "stop_first"]}

SimInit ==
    /\ \E S \in {T \in SUBSET (1..Len(SimKeySeq)) : Cardinality(T) <= MaxSimRows} :
         \E f \in [S -> UNION {SimVariantsOf(i) : i \in S}] :
            /\ \A i \in S : f[i] \in SimVariantsOf(i)
            /\ creamy = SimTableOf(S, f)
    /\ \E S \in {T \in SUBSET (1..Len(BarSlots)) : Cardinality(T) <= MaxBars} :
         \E f \in [S -> UNION {BarSlots[i] : i \in S}] :
            /\ \A i \in S : f[i] \in BarSlots[i]
            /\ eod = BarTableOf(S, f)
    /\ clock = 1
    /\ log = [tag |-> "NONE"]
    /\ sim = SimIdle
    /\ out = PreviousSummary
    /\ profiles = AIW_C_PROFILE
    /\ txn = TxIdle

\* from argument parsing to the first loop iteration; SystemExit when the
\* environment has no selected candidate
SimStart(args) ==
    /\ sim.pc = "idle"
    /\ LET mx == MaxRunDate(creamy, args.env)
       IN  IF mx = NULL
           THEN /\ sim' = [pc |-> "failed", args |-> args]
                /\ log' = [tag |-> "BACKTEST", msg |-> "ERROR: No RUN_DATE found"]
           ELSE /\ sim' = [pc |-> "run", args |-> args,
                           todo |-> WorkList(creamy, args.env,
                                       RunDatesFrom(creamy, args.env, mx[1] - args.days),
                                       args.topn),
                           stats |-> [q \in {} |-> NewStat]]
                /\ log' = log
    /\ UNCHANGED <<creamy, eod, clock, out, profiles, txn>>

\* one iteration of `for r in take`
SimStep ==
    /\ sim.pc = "run"
    /\ sim.todo # <<>>
    /\ LET r   == Head(sim.todo)
           pid == r.PROFILE_ID
           st  == Account(StatOf(sim.stats, pid), r, eod, sim.args)
       IN  sim' = [sim EXCEPT !.todo = Tail(@),
                              !.stats = [q \in DOMAIN sim.stats \cup {pid} |->
                                            IF q = pid THEN st ELSE sim.stats[q]]]
    /\ UNCHANGED <<creamy, eod, clock, log, out, profiles, txn>>

\* the summary is written to args.out and printed
SimFinish ==
    /\ sim.pc = "run"
    /\ sim.todo = <<>>
    /\ LET rows_out == RowsOut(sim.stats, sim.args.amb_rule)
       IN  /\ out' = [fieldnames |-> IF rows_out = <<>> THEN "profile" ELSE "all",
                      rows |-> rows_out]
           /\ log' = [tag |-> "BACKTEST",
                      msg |-> IF rows_out = <<>> THEN "No rows produced" ELSE "WROTE"]
    /\ sim' = [sim EXCEPT !.pc = "done"]
    /\ UNCHANGED <<creamy, eod, clock, profiles, txn>>

SimNext ==
    \/ \E args \in SimArgs : SimStart(args)
    \/ SimStep
    \/ SimFinish

SimSpec == SimInit /\ [][SimNext]_vars

(***************************************************************************)
(* The writers, statement by statement                                     *)
(***************************************************************************)
MaxTxRows == 3    \* rows of AIW_A_CREAMY_LAYER the writers start from

TxKeySeq ==
    << <<"SIM", 1, "CONSERVATIVE", "I1">>, <<"SIM", 1, "CONSERVATIVE", "I2">>,
       <<"SIM", 1, "AGGRESSIVE", "I1">>, <<"SIM", 1, "ULTRA_AGGRESSIVE", "I2">>,
       <<"SIM", 1, "SWING", "I1">>, <<"SIM", 2, "CONSERVATIVE", "I1">> >>

\* <<IS_CREAMY, CREATED_AT>> of a row
TxVariantsOf(i) ==
    CASE i = 1 -> { <<1, <<0>>>>, <<1, NULL>>, <<0, <<0>>>> }
      [] i \in {2, 3, 4} -> { <<1, <<0>>>>, <<0, <<0>>>> }
      [] OTHER -> { <<1, <<0>>>> }

TxRow(k, v) ==
    [RawRow(k, RInt(100), <<1>>, RInt(9), v[1]) EXCEPT !.CREATED_AT = v[2]]

TxTableOf(S, f) ==
    LET ks == SetToSeq(S)
    IN  [i \in Idx(ks) |-> TxRow(TxKeySeq[ks[i]], f[ks[i]])]

\* contents of AIW_C_PROFILE: empty, two profiles stored in reverse order of
\* their identifiers, or the usual three
ProfileTables ==
    { <<>>, <<AIW_C_PROFILE[2], AIW_C_PROFILE[1]>>, AIW_C_PROFILE }

TxTargets == { <<"SIM", 1>>, <<"SIM", 2>> }

TxInit ==
    /\ \E S \in {T \in SUBSET (1..Len(TxKeySeq)) : Cardinality(T) <= MaxTxRows} :
         \E f \in [S -> UNION {TxVariantsOf(i) : i \in S}] :
            /\ \A i \in S : f[i] \in TxVariantsOf(i)
            /\ creamy = TxTableOf(S, f)
    /\ profiles \in ProfileTables
    /\ eod = <<>>
    /\ clock = 1
    /\ log = [tag |-> "NONE"]
    /\ sim = SimIdle
    /\ out = PreviousSummary
    /\ txn = TxIdle

\* expansion, from argument parsing to the first iteration of `for pid`
ExpandBegin(env, run_date) ==
    /\ txn.pc = "idle"
    /\ clock <= MaxRuns
    /\ LET base == BaseProfile(creamy, env, run_date)
       IN  IF base = NULL
           THEN /\ log' = [tag |-> "EXPAND", msg |-> "No creamy rows found", n |-> 0,
                           env |-> env, run_date |-> run_date, now |-> clock]
                /\ txn' = txn
           ELSE IF AllProfiles(profiles) = <<>>
           THEN /\ log' = [tag |-> "EXPAND", msg |-> "AIW_C_PROFILE is empty", n |-> 0,
                           env |-> env, run_date |-> run_date, now |-> clock]
                /\ txn' = txn
           ELSE /\ log' = log
                /\ txn' = [pc |-> "expand", env |-> env, run_date |-> run_date,
                           base |-> base[1], todo |-> AllProfiles(profiles),
                           view |-> creamy, now |-> clock, created |-> 0]
    /\ clock' = clock + 1
    /\ UNCHANGED <<creamy, eod, sim, out, profiles>>

\* one iteration of `for pid in all_profiles`; the INSERT raises
\* sqlite3.IntegrityError on a stored key and the script dies uncommitted
ExpandStep ==
    /\ txn.pc = "expand"
    /\ txn.todo # <<>>
    /\ LET pid == Head(txn.todo)
           new == Clones(txn.view, txn.env, txn.run_date, txn.base, pid, txn.now)
       IN  IF pid = txn.base \/ Exists(txn.view, txn.env, txn.run_date, pid) > 0
           THEN /\ txn' = [txn EXCEPT !.todo = Tail(@)]
                /\ log' = log
           ELSE IF KeyConflict(txn.view, new)
           THEN /\ txn' = TxIdle
                /\ log' = [tag |-> "EXPAND", msg |-> "IntegrityError", n |-> 0,
                           env |-> txn.env, run_date |-> txn.run_date, now |-> txn.now]
           ELSE /\ txn' = [txn EXCEPT !.todo = Tail(@), !.view = @ \o new,
                                      !.created = @ + Len(new)]
                /\ log' = log
    /\ UNCHANGED <<creamy, eod, clock, sim, out, profiles>>

\* con.commit() and the status line
ExpandCommit ==
    /\ txn.pc = "expand"
    /\ txn.todo = <<>>
    /\ creamy' = txn.view
    /\ log' = [tag |-> "EXPAND", msg |-> "Cloned", n |-> txn.created,
               base |-> txn.base, env |-> txn.env, run_date |-> txn.run_date,
               now |-> txn.now]
    /\ txn' = TxIdle
    /\ UNCHANGED <<eod, clock, sim, out, profiles>>

\* enricher v1 up to its first UPDATE
V1Begin(env, run_date) ==
    /\ txn.pc = "idle"
    /\ clock <= MaxRuns
    /\ IF SelectCreamy(creamy, env, run_date) = <<>>
       THEN /\ log' = [tag |-> "ENRICH", msg |-> "No creamy rows", n |-> 0,
                       env |-> env, run_date |-> run_date, now |-> clock]
            /\ txn' = txn
       ELSE /\ log' = log
            /\ txn' = [pc |-> "v1", env |-> env, run_date |-> run_date,
                       todo |-> UpdatesV1(creamy, env, run_date, clock),
                       view |-> creamy, now |-> clock, n |-> 0]
    /\ clock' = clock + 1
    /\ UNCHANGED <<creamy, eod, sim, out, profiles>>

\* V1Step on a connection in autocommit mode
V1StepAutocommit ==
    /\ txn.pc = "v1"
    /\ txn.todo # <<>>
    /\ txn' = [txn EXCEPT !.todo = Tail(@), !.n = @ + 1,
                          !.view = ExecuteMany(@, <<Head(txn.todo)>>)]
    /\ creamy' = txn'.view
    /\ UNCHANGED <<eod, clock, log, sim, out, profiles>>

\* one conn.execute(UPDATE ...) of the inner loop
V1Step ==
    /\ txn.pc = "v1"
    /\ txn.todo # <<>>
    /\ txn' = [txn EXCEPT !.todo = Tail(@), !.n = @ + 1,
                          !.view = ExecuteMany(@, <<Head(txn.todo)>>)]
    /\ UNCHANGED <<creamy, eod, clock, log, sim, out, profiles>>

\* conn.commit(), conn.close() and the status line
V1Commit ==
    /\ txn.pc = "v1"
    /\ txn.todo = <<>>
    /\ creamy' = txn.view
    /\ log' = [tag |-> "ENRICH", msg |-> "Updated", n |-> txn.n,
               env |-> txn.env, run_date |-> txn.run_date, now |-> txn.now]
    /\ txn' = TxIdle
    /\ UNCHANGED <<eod, clock, sim, out, profiles>>

\* enricher v2 up to cur.executemany: `updates` is built without any write
V2Begin(env, run_date) ==
    /\ txn.pc = "idle"
    /\ clock <= MaxRuns
    /\ IF SelectCreamy(creamy, env, run_date) = <<>>
       THEN /\ log' = [tag |-> "ENRICH_V2", msg |-> "No creamy rows", n |-> 0,
                       env |-> env, run_date |-> run_date, now |-> clock]
            /\ txn' = txn
       ELSE /\ log' = log
            /\ txn' = [pc |-> "v2", env |-> env, run_date |-> run_date,
                       todo |-> UpdatesV2(creamy, env, run_date, clock),
                       view |-> creamy, now |-> clock, n |-> 0]
    /\ clock' = clock + 1
    /\ UNCHANGED <<creamy, eod, sim, out, profiles>>

\* cur.executemany(UPDATE ..., updates)
V2Execute ==
    /\ txn.pc = "v2"
    /\ txn.todo # <<>>
    /\ txn' = [txn EXCEPT !.todo = <<>>, !.n = Len(txn.todo),
                          !.view = ExecuteMany(@, txn.todo)]
    /\ UNCHANGED <<creamy, eod, clock, log, sim, out, profiles>>

\* con.commit() and the status line
V2Commit ==
    /\ txn.pc = "v2"
    /\ txn.todo = <<>>
    /\ creamy' = txn.view
    /\ log' = [tag |-> "ENRICH_V2", msg |-> "Updated", n |-> txn.n,
               env |-> txn.env, run_date |-> txn.run_date, now |-> txn.now]
    /\ txn' = TxIdle
    /\ UNCHANGED <<eod, clock, sim, out, profiles>>

\* the process of the writer dies (an exception, a kill) before commit():
\* the connection is dropped and its transaction rolled back
Crash ==
    /\ txn.pc # "idle"
    /\ txn' = TxIdle
    /\ UNCHANGED <<creamy, eod, clock, log, sim, out, profiles>>

TxNext ==
    \/ \E tg \in TxTargets : ExpandBegin(tg[1], tg[2])
    \/ ExpandStep
    \/ ExpandCommit
    \/ \E tg \in TxTargets : V1Begin(tg[1], tg[2])
    \/ V1Step
    \/ V1Commit
    \/ \E tg \in TxTargets : V2Begin(tg[1], tg[2])
    \/ V2Execute
    \/ V2Commit
    \/ Crash

TxSpec == TxInit /\ [][TxNext]_vars

(***************************************************************************)
(* Enrichment followed by the backtest                                     *)
(***************************************************************************)

\* the keys of the rows the pipeline may start from: two profiles share
\* SIM day 1, one of them has a candidate on day 2 as well
PipeKeySeq ==
    << <<"SIM", 1, "CONSERVATIVE", "I1">>, <<"SIM", 1, "CONSERVATIVE", "I2">>,
       <<"SIM", 1, "ULTRA_AGGRESSIVE", "I1">>, <<"SIM", 1, "ULTRA_AGGRESSIVE", "I2">>,
       <<"SIM", 2, "CONSERVATIVE", "I1">> >>

\* <<ENTRY_PRICE, DISPLAY_RANK, RANKING_SCORE, IS_CREAMY>> of the row of key i
PipeVariantsOf(i) ==
    CASE i = 1 -> { PlainVariant, <<RInt(100), <<2>>, RInt(7), 1>> }
      [] i = 2 -> { <<RInt(100), <<3>>, RInt(3), 1>> }
      [] i = 3 -> { <<RInt(100), <<2>>, RInt(7), 1>>, <<RInt(100), <<3>>, RInt(3), 1>> }
      [] OTHER -> { PlainVariant }

PipeTableOf(S, f) ==
    LET ks == SetToSeq(S)
    IN  [i \in Idx(ks) |->
            RawRow(PipeKeySeq[ks[i]], f[ks[i]][1], f[ks[i]][2], f[ks[i]][3], f[ks[i]][4])]

\* price bars: <<instrument, trade date, high, low, close>>
PipeBars ==
    << <<"I1", 2, 112, 94, 104>>, <<"I1", 3, 105, 97, 101>>, <<"I2", 2, 112, 97, 104>> >>

PipeArgs ==
    [env : {"SIM"}, days : {0, 365}, horizon : {2}, topn : {1, 2},
     amb_rule : {"stop_first"}]

PipeInit ==
    /\ \E S \in SUBSET (1..Len(PipeKeySeq)) :
         \E f \in [S -> RowVariants] :
            /\ \A i \in S : f[i] \in PipeVariantsOf(i)
            /\ creamy = PipeTableOf(S, f)
    /\ \E S \in SUBSET (1..Len(PipeBars)) :
         eod = BarTableOf(S, [i \in S |-> PipeBars[i]])
    /\ clock = 1
    /\ log = [tag |-> "NONE"]
    /\ sim = SimIdle
    /\ out = PreviousSummary
    /\ profiles = AIW_C_PROFILE
    /\ txn = TxIdle

\* the enrichers run for SIM day 1, then the backtest runs once
PipeNext ==
    \/ EnrichV2("SIM", 1)
    \/ EnrichV1("SIM", 1)
    \/ \E args \in PipeArgs : SimStart(args)
    \/ SimStep
    \/ SimFinish

PipeSpec == PipeInit /\ [][PipeNext]_vars

(***************************************************************************)
(* Enrichment of one pair over every kind of rank and score                *)
(***************************************************************************)
MaxGroup == 3     \* selected rows of the pair

\* the keys of the pair's rows: a group of up to three CONSERVATIVE rows and
\* one row for each other risk class (SWING is not in AIW_C_PROFILE and has
\* no keyword: BALANCED for both enrichers)
RankKeySeq ==
    << <<"SIM", 1, "CONSERVATIVE", "I1">>, <<"SIM", 1, "CONSERVATIVE", "I2">>,
       <<"SIM", 1, "CONSERVATIVE", "I3">>, <<"SIM", 1, "SWING", "I1">>,
       <<"SIM", 1, "AGGRESSIVE", "I1">>, <<"SIM", 1, "ULTRA_AGGRESSIVE", "I1">>,
       <<"SIM", 1, "CONSERVATIVE", "I4">> >>

\* <<ENTRY_PRICE, DISPLAY_RANK, RANKING_SCORE, IS_CREAMY>> of the row of key
\* i: ranks missing, zero, negative, equal, and starting above 1
RankVariantsOf(i) ==
    CASE i = 1 -> { <<RInt(100), NULL,   NULL,     1>>, <<RInt(100), <<0>>, RInt(0), 1>>,
                    <<RInt(100), <<1>>,  RInt(9),  1>>, <<RInt(100), <<3>>, RInt(3), 1>> }
      [] i = 2 -> { <<RInt(100), <<-1>>, RInt(-2), 1>>, <<RInt(100), <<1>>, RInt(9), 1>>,
                    <<RInt(100), <<2>>,  RInt(7),  1>>, <<RInt(100), <<3>>, RInt(3), 1>> }
      [] i = 3 -> { <<RInt(100), <<3>>,  RInt(3),  1>>, <<RInt(100), <<5>>, RInt(1), 1>> }
      [] OTHER -> { PlainVariant, <<RInt(100), <<2>>, RInt(7), 1>> }

RankTableOf(S, f) ==
    LET ks == SetToSeq(S)
    IN  [i \in Idx(ks) |->
            RawRow(RankKeySeq[ks[i]], f[ks[i]][1], f[ks[i]][2], f[ks[i]][3], f[ks[i]][4])]

RankInit ==
    /\ \E S \in {T \in SUBSET (1..Len(RankKeySeq)) : Cardinality(T) <= MaxGroup} :
         \E f \in [S -> UNION {RankVariantsOf(i) : i \in S}] :
            /\ \A i \in S : f[i] \in RankVariantsOf(i)
            /\ creamy = RankTableOf(S, f)
    /\ eod = <<>>
    /\ clock = 1
    /\ log = [tag |-> "NONE"]
    /\ sim = SimIdle
    /\ out = PreviousSummary
    /\ profiles = AIW_C_PROFILE
    /\ txn = TxIdle

RankNext ==
    \/ EnrichV2("SIM", 1)
    \/ EnrichV1("SIM", 1)

RankSpec == RankInit /\ [][RankNext]_vars

(***************************************************************************)
(* Claims about Enrichment                                                 *)
(***************************************************************************)
EnrichTags == {"ENRICH", "ENRICH_V2"}

\* the step is one invocation of an enricher (its status line is log')
EnrichStep == log'.tag \in EnrichTags /\ log'.now = clock

\* row i was written by the invocation whose status line is `log`
WrittenBy(tag, i) ==
    log.tag = tag /\ log.msg = "Updated" /\ creamy[i].UPDATED_AT = log.now

\* row a equals row b in every column Enrichment must not write
SameOutsideMetrics(a, b) ==
    [a EXCEPT !.TARGET_PRICE = NULL, !.STOP_LOSS = NULL, !.CONFIDENCE = NULL,
              !.EXPECTED_RETURN_PCT = NULL, !.AI_REASON = NULL, !.UPDATED_AT = 0]
  = [b EXCEPT !.TARGET_PRICE = NULL, !.STOP_LOSS = NULL, !.CONFIDENCE = NULL,
              !.EXPECTED_RETURN_PCT = NULL, !.AI_REASON = NULL, !.UPDATED_AT = 0]

\* C1: an Enrichment invocation (v1 or v2) on one (environment, run-date)
\* adds and removes no row, leaves every column other than target, stop,
\* confidence, expected return, rationale and update timestamp as it was, and
\* changes only selected rows of that (environment, run-date).
C1_EnrichmentFrame ==
    [][EnrichStep =>
        /\ Len(creamy') = Len(creamy)
        /\ \A i \in Idx(creamy) :
            /\ SameOutsideMetrics(creamy'[i], creamy[i])
            /\ creamy'[i] # creamy[i] =>
                  IsCreamyOf(creamy[i], log'.env, log'.run_date)]_vars

\* C1 witness: an invocation has written a row while the table also holds a
\* row it must not touch (another pair, or not selected)
C1_Witness ==
    /\ log.tag \in EnrichTags
    /\ \E i, j \in Idx(creamy) :
        /\ creamy[i].UPDATED_AT = log.now
        /\ ~IsCreamyOf(creamy[j], log.env, log.run_date)

InRange(x, lo, hi) == RLe(RInt(lo), x) /\ RLe(x, RInt(hi))

\* C2: the confidence stored by Enrichment lies in [35,95] when v2 wrote the
\* row and in [1,99] when v1 wrote it.
C2_ConfidenceRange ==
    \A i \in Idx(creamy) :
        /\ WrittenBy("ENRICH_V2", i) => InRange(creamy[i].CONFIDENCE, 35, 95)
        /\ WrittenBy("ENRICH", i) => InRange(creamy[i].CONFIDENCE, 1, 99)

\* C2 witness: one v2 invocation has written two rows with different
\* confidence (different ranks of one group)
C2_Witness ==
    \E i, j \in Idx(creamy) :
        /\ WrittenBy("ENRICH_V2", i) /\ WrittenBy("ENRICH_V2", j)
        /\ creamy[i].PROFILE_ID = creamy[j].PROFILE_ID
        /\ RLt(creamy[i].CONFIDENCE, creamy[j].CONFIDENCE)

\* the reward:risk target of the row's risk class, per variant
RRTargetV2(r) == BASE[risk_from_profile_id(r.PROFILE_ID)].rr
RRTargetV1(r) == risk_params(load_profiles(r.PROFILE_ID))[3]

\* stop = entry * (1 - d/100) and target = entry * (1 + roi/100), with roi the
\* stored expected-return percent
EconomicsAgree(r, d) ==
    LET entry == FloatOr0(r.ENTRY_PRICE)
        roi   == r.EXPECTED_RETURN_PCT
    IN  /\ RMul(r.STOP_LOSS, RInt(100)) = RMul(entry, RSub(RInt(100), d))
        /\ RMul(r.TARGET_PRICE, RInt(100)) = RMul(entry, RAdd(RInt(100), roi))

ClampTo(x, lo, hi) == RMax(lo, RMin(hi, x))

\* C3: for every enriched row, downside% = stored expected return / rrTarget
\* of its class (clamped to [0.75, 15.0] in v2, unclamped in v1),
\* stop = entry * (1 - downside%/100) and target = entry * (1 + expected/100).
C3_StopTargetFormula ==
    \A i \in Idx(creamy) :
        /\ WrittenBy("ENRICH_V2", i) =>
              EconomicsAgree(creamy[i],
                  ClampTo(RDiv(creamy[i].EXPECTED_RETURN_PCT, RRTargetV2(creamy[i])),
                          Rat(3, 4), RInt(15)))
        /\ WrittenBy("ENRICH", i) =>
              EconomicsAgree(creamy[i],
                  RDiv(creamy[i].EXPECTED_RETURN_PCT, RRTargetV1(creamy[i])))

\* C3 witness: v1 has written a row whose expected return was rounded to two
\* decimals (3.1666... -> 3.17, the middle of three scores)
C3_Witness ==
    \E i \in Idx(creamy) :
        /\ WrittenBy("ENRICH", i)
        /\ creamy[i].EXPECTED_RETURN_PCT = Rat(317, 100)
        /\ creamy[i].ENTRY_PRICE = RInt(100)

\* C4 (as claimed): every row Enrichment has written has target > entry and
\* stop < entry.
C4_TargetAboveStopBelow ==
    \A i \in Idx(creamy) :
        (WrittenBy("ENRICH_V2", i) \/ WrittenBy("ENRICH", i)) =>
            /\ RLt(FloatOr0(creamy[i].ENTRY_PRICE), creamy[i].TARGET_PRICE)
            /\ RLt(creamy[i].STOP_LOSS, FloatOr0(creamy[i].ENTRY_PRICE))

\* C5 (as claimed): an invocation leaves target, stop, confidence, expected
\* return and rationale of a selected row with entry <= 0 (or missing) as
\* they were, and enriches the other selected rows of the pair.
C5_NonPositiveEntrySkipped ==
    [][EnrichStep =>
        \A i \in Idx(creamy) :
            IsCreamyOf(creamy[i], log'.env, log'.run_date) =>
                IF RLe(FloatOr0(creamy[i].ENTRY_PRICE), RInt(0))
                THEN /\ creamy'[i].TARGET_PRICE = creamy[i].TARGET_PRICE
                     /\ creamy'[i].STOP_LOSS = creamy[i].STOP_LOSS
                     /\ creamy'[i].CONFIDENCE = creamy[i].CONFIDENCE
                     /\ creamy'[i].EXPECTED_RETURN_PCT = creamy[i].EXPECTED_RETURN_PCT
                     /\ creamy'[i].AI_REASON = creamy[i].AI_REASON
                ELSE creamy'[i].UPDATED_AT = log'.now]_vars

(***************************************************************************)
(* Claims about the backtest                                               *)
(***************************************************************************)

\* the step is one iteration of the candidate loop
SimStepTaken == sim.pc = "run" /\ sim'.pc = "run" /\ sim.todo # <<>>

\* the candidate of the iteration, its accumulator before and after
Cand == Head(sim.todo)
Before == StatOf(sim.stats, Cand.PROFILE_ID)
After == sim'.stats[Cand.PROFILE_ID]
RealizedAdded == RSub(After.sum_realized, Before.sum_realized)

CandEntry == FloatOr0(Cand.ENTRY_PRICE)
CandTarget == FloatOr0(Cand.TARGET_PRICE)
CandStop == FloatOr0(Cand.STOP_LOSS)
CandBars == ForwardBars(eod, Cand.INSTRUMENT_ID, Cand.RUN_DATE, sim.args.horizon)

\* maxHigh, minLow and lastClose over the candidate's forward bars
MaxHigh ==
    LET hs == {CandBars[i].HIGH_PRICE : i \in Idx(CandBars)}
    IN  CHOOSE h \in hs : \A g \in hs : RLe(g, h)
MinLow ==
    LET ls == {CandBars[i].LOW_PRICE : i \in Idx(CandBars)}
    IN  CHOOSE l \in ls : \A g \in ls : RLe(l, g)
LastClose ==
    LET last == CHOOSE i \in Idx(CandBars) :
                    \A j \in Idx(CandBars) : CandBars[j].TRADE_DATE <= CandBars[i].TRADE_DATE
    IN  CandBars[last].CLOSE_PRICE

\* (x - entry) / entry * 100
ReturnPct(x) == RMul(RDiv(RSub(x, CandEntry), CandEntry), RInt(100))

\* the realized return the iteration added is (x - entry) / entry * 100, and
\* 0 for a candidate whose entry is 0
RealizedIs(x) == RealizedAdded = (IF CandEntry = RInt(0) THEN RInt(0) ELSE ReturnPct(x))

\* what the iteration did to the four outcome counters and to win / loss
Counted(amb, tgt, sl, none, win, lose) ==
    /\ After.amb = Before.amb + amb
    /\ After.tgt_hit = Before.tgt_hit + tgt
    /\ After.none = Before.none + none
    /\ After.win = Before.win + win
    /\ sl >= 0 => After.sl_hit = Before.sl_hit + sl
    /\ lose >= 0 => After.lose = Before.lose + lose

\* the outcome of the iteration, given which levels count as touched;
\* -1: the counter is left to the ambiguity policy
OutcomeBy(touchT, touchS) ==
    /\ touchT /\ touchS => Counted(1, 0, -1, 0, 0, -1)
    /\ touchT /\ ~touchS => Counted(0, 1, 0, 0, 1, 0) /\ RealizedIs(CandTarget)
    /\ ~touchT /\ touchS => Counted(0, 0, 1, 0, 0, 1) /\ RealizedIs(CandStop)
    /\ ~touchT /\ ~touchS => Counted(0, 0, 0, 1, 0, 0) /\ RealizedIs(LastClose)

\* C6 (as claimed): a counted candidate with forward bars is ambiguous when
\* maxHigh >= target and minLow <= stop, a target-hit (win) when only
\* maxHigh >= target, a stop-hit (loss) when only minLow <= stop, otherwise
\* none, with the realized return of its outcome.
C6_OutcomeAsClaimed ==
    [][(SimStepTaken /\ CandBars # <<>> /\ CandEntry # RInt(0)) =>
          OutcomeBy(RLe(CandTarget, MaxHigh), RLe(MinLow, CandStop))]_vars

\* C6 (amended): the same classification, where a level is touched only if
\* it is set: target > 0 and maxHigh >= target, stop > 0 and minLow <= stop;
\* the realized return is relative to entry and 0 when entry is 0.
C6_OutcomeBySetLevels ==
    [][(SimStepTaken /\ CandBars # <<>>) =>
          OutcomeBy(RLt(RInt(0), CandTarget) /\ RLe(CandTarget, MaxHigh),
                    RLt(RInt(0), CandStop) /\ RLe(MinLow, CandStop))]_vars

\* C6 witness: a selected candidate with entry 100 and no target, whose bar
\* has high 112 and close 104, was counted as none with realized +4%
C6_Witness ==
    /\ sim.pc = "done"
    /\ \E i \in Idx(creamy) :
        /\ IsCreamyOf(creamy[i], "SIM", 1)
        /\ creamy[i].TARGET_PRICE = NULL
        /\ creamy[i].PROFILE_ID \in DOMAIN sim.stats
        /\ LET st == sim.stats[creamy[i].PROFILE_ID]
           IN  st.n = 1 /\ st.none = 1 /\ st.sum_realized = RInt(4)

\* C7 (as claimed): under skip an ambiguous candidate adds nothing to the
\* trade count, the day set or the sums of edge, confidence, expected return
\* and realized return.
C7_SkipExcludesAmbiguous ==
    [][(SimStepTaken /\ sim.args.amb_rule = "skip" /\ After.amb = Before.amb + 1) =>
          /\ After.n = Before.n
          /\ After.days = Before.days
          /\ After.sum_edge = Before.sum_edge
          /\ After.sum_conf = Before.sum_conf
          /\ After.sum_roi = Before.sum_roi
          /\ After.sum_realized = Before.sum_realized]_vars

\* C8 (as claimed): for every profile with a nonzero trade count, under each
\* policy, target-hit + stop-hit + ambiguous + none equals the trade count.
C8_OutcomeCountersPartition ==
    sim.pc \in {"run", "done"} =>
        \A pid \in DOMAIN sim.stats :
            LET st == sim.stats[pid]
            IN  st.n # 0 => st.tgt_hit + st.sl_hit + st.amb + st.none = st.n

\* C9: under stop_first an ambiguous candidate adds (stop - entry)/entry*100
\* to the realized sum and counts as a stop-hit and a loss, never as a win.
C9_StopFirstIsStopHit ==
    [][(SimStepTaken /\ sim.args.amb_rule = "stop_first" /\ After.amb = Before.amb + 1) =>
          /\ CandEntry # RInt(0) => RealizedAdded = ReturnPct(CandStop)
          /\ After.sl_hit = Before.sl_hit + 1
          /\ After.lose = Before.lose + 1
          /\ After.win = Before.win
          /\ After.tgt_hit = Before.tgt_hit]_vars

\* C9 witness: entry 100, target 110, stop 95, high 112, low 94 under
\* stop_first: one ambiguous trade booked as a loss of 5%
C9_Witness ==
    /\ sim.pc = "done" /\ sim.args.amb_rule = "stop_first"
    /\ \E pid \in DOMAIN sim.stats :
        LET st == sim.stats[pid]
        IN  st.n = 1 /\ st.amb = 1 /\ st.lose = 1 /\ st.sum_realized = RInt(-5)

\* C10: under half_half an ambiguous candidate adds the average of the
\* target-implied and stop-implied returns and increments none of win, loss,
\* target-hit and stop-hit.
C10_HalfHalfAverages ==
    [][(SimStepTaken /\ sim.args.amb_rule = "half_half" /\ After.amb = Before.amb + 1) =>
          /\ CandEntry # RInt(0) =>
                RMul(RealizedAdded, RInt(2)) = RAdd(ReturnPct(CandTarget), ReturnPct(CandStop))
          /\ After.win = Before.win
          /\ After.lose = Before.lose
          /\ After.tgt_hit = Before.tgt_hit
          /\ After.sl_hit = Before.sl_hit]_vars

\* C10 witness: the same trade under half_half: ambiguous, +2.5%, no win and
\* no loss
C10_Witness ==
    /\ sim.pc = "done" /\ sim.args.amb_rule = "half_half"
    /\ \E pid \in DOMAIN sim.stats :
        LET st == sim.stats[pid]
        IN  st.n = 1 /\ st.amb = 1 /\ st.win = 0 /\ st.lose = 0
            /\ st.sum_realized = Rat(5, 2)

\* the accumulators after the loop has visited every candidate of q
RECURSIVE RunAll(_, _, _, _)
RunAll(stats, q, bars, args) ==
    IF q = <<>> THEN stats
    ELSE LET r   == Head(q)
             pid == r.PROFILE_ID
             st  == Account(StatOf(stats, pid), r, bars, args)
         IN  RunAll([p \in DOMAIN stats \cup {pid} |-> IF p = pid THEN st ELSE stats[p]],
                    Tail(q), bars, args)

\* the same invocation under another ambiguity policy
Under(rule) == [sim.args EXCEPT !.amb_rule = rule]

\* what the iteration adds to the realized sum under the given policy
RealizedUnder(rule) ==
    RSub(Account(Before, Cand, eod, Under(rule)).sum_realized, Before.sum_realized)

\* C11: for the same candidates and bars, an ambiguous candidate's realized
\* return under stop_first is <= its realized return under half_half, and so
\* is every profile's realized-return sum over the candidates still to visit.
C11_StopFirstAtMostHalfHalf ==
    [][SimStepTaken =>
          /\ After.amb = Before.amb + 1 =>
                RLe(RealizedUnder("stop_first"), RealizedUnder("half_half"))
          /\ LET sf == RunAll(sim.stats, sim.todo, eod, Under("stop_first"))
                 hh == RunAll(sim.stats, sim.todo, eod, Under("half_half"))
             IN  \A pid \in DOMAIN sf :
                    RLe(sf[pid].sum_realized, hh[pid].sum_realized)]_vars

\* C11 witness: an ambiguous trade with entry 100, target 110, stop 95 was
\* booked under stop_first at -5%, where half_half books +2.5%
C11_Witness ==
    /\ sim.pc = "done" /\ sim.args.amb_rule = "stop_first"
    /\ \E pid \in DOMAIN sim.stats :
        /\ sim.stats[pid].amb = 1 /\ sim.stats[pid].n = 1
        /\ sim.stats[pid].sum_realized = RInt(-5)
        /\ RunAll([q \in {} |-> NewStat],
                  WorkList(creamy, sim.args.env,
                           RunDatesFrom(creamy, sim.args.env,
                               MaxRunDate(creamy, sim.args.env)[1] - sim.args.days),
                           sim.args.topn),
                  eod, Under("half_half"))[pid].sum_realized = Rat(5, 2)

\* the price table holds no bar of the candidate's instrument after its run-date
NoBarAfterRunDate ==
    ~ \E i \in Idx(eod) :
        eod[i].INSTRUMENT_ID = Cand.INSTRUMENT_ID /\ eod[i].TRADE_DATE > Cand.RUN_DATE

\* C12: a counted candidate with no bar strictly after its run-date adds 1 to
\* the trade count and to none, adds nothing to the realized sum, touches no
\* other outcome counter, and the loop goes on with the next candidate.
C12_NoBarsIsNone ==
    [][(sim.pc = "run" /\ sim.todo # <<>> /\ sim' # sim /\ NoBarAfterRunDate) =>
          /\ sim'.pc = "run"
          /\ sim'.todo = Tail(sim.todo)
          /\ After.n = Before.n + 1
          /\ After.sum_realized = Before.sum_realized
          /\ Counted(0, 0, 0, 1, 0, 0)]_vars

\* C12 witness: the run finished after two candidates without any price bar,
\* both counted as none
C12_Witness ==
    /\ sim.pc = "done" /\ eod = <<>>
    /\ \E pid \in DOMAIN sim.stats :
        LET st == sim.stats[pid]
        IN  st.n = 2 /\ st.none = 2 /\ st.sum_realized = RInt(0)

\* the candidates table holds no selected row of the environment
NoSelectedCandidate(env) ==
    ~ \E i \in Idx(creamy) : creamy[i].ENV_CODE = env /\ creamy[i].IS_CREAMY = 1

\* C13: started on an environment without any selected candidate, the backtest
\* fails with an error, accumulates nothing, and the summary file written
\* earlier stays as it was.
C13_NoCandidatesIsFatal ==
    /\ [][(sim.pc = "idle" /\ sim'.pc # "idle" /\ NoSelectedCandidate(sim'.args.env)) =>
             /\ sim'.pc = "failed"
             /\ log'.msg = "ERROR: No RUN_DATE found"
             /\ out' = out]_vars
    /\ [](sim.pc = "failed" =>
             /\ out = PreviousSummary
             /\ "stats" \notin DOMAIN sim
             /\ ~ ENABLED SimNext)

\* C13 witness: the backtest failed on a table that holds rows of the
\* environment, none of them selected
C13_Witness ==
    /\ sim.pc = "failed"
    /\ \E i \in Idx(creamy) : creamy[i].ENV_CODE = sim.args.env /\ creamy[i].IS_CREAMY = 0
    /\ out = PreviousSummary

(***************************************************************************)
(* Claims about profile expansion and about commits                        *)
(***************************************************************************)

\* the last status line is that of an expansion of the pair the running
\* expansion works on
AfterExpansionOfSamePair ==
    /\ txn.pc = "expand"
    /\ log.tag = "EXPAND"
    /\ log.env = txn.env /\ log.run_date = txn.run_date

\* C14: an expansion that follows an expansion of the same (environment,
\* run-date) leaves the committed table as the first one left it; after a
\* first run that committed, it inserts nothing and fails on no key,
\* whichever profile it takes as canonical.
C14_ExpansionIdempotent ==
    [][AfterExpansionOfSamePair =>
          /\ creamy' = creamy
          /\ log.msg = "Cloned" =>
                /\ log'.msg # "IntegrityError"
                /\ txn'.pc = "expand" => txn'.view = txn.view /\ txn'.created = 0]_vars

\* C14 witness: a second expansion of the pair has visited every profile,
\* with a canonical profile other than the one of the first run, which had
\* created clones
C14_Witness ==
    /\ AfterExpansionOfSamePair
    /\ log.msg = "Cloned"
    /\ txn.todo = <<>>
    /\ log.n > 0
    /\ log.base # txn.base

\* all rows of a profile for a pair, selected or not
RowsOfProfile(t, env, run_date, pid) ==
    SelectSeq(t, LAMBDA r : /\ r.ENV_CODE = env /\ r.RUN_DATE = run_date
                            /\ r.PROFILE_ID = pid)

\* all rows of the other pairs
RowsElsewhere(t, env, run_date) ==
    SelectSeq(t, LAMBDA r : ~(r.ENV_CODE = env /\ r.RUN_DATE = run_date))

\* the profile identifiers that occur in a table
ProfilesIn(t) == {t[i].PROFILE_ID : i \in Idx(t)}

\* the profile has at least one selected row for the pair
HasSelected(t, env, run_date, pid) ==
    \E i \in Idx(t) : IsCreamyOf(t[i], env, run_date) /\ t[i].PROFILE_ID = pid

\* C15: an expansion adds, removes and modifies no row of a profile that
\* already has a selected row for the pair, changes no row of another pair,
\* and leaves every stored row as it was.
C15_ExpansionFrame ==
    [][txn.pc = "expand" =>
          /\ \A pid \in ProfilesIn(creamy) \cup ProfilesIn(creamy') :
                HasSelected(creamy, txn.env, txn.run_date, pid) =>
                    RowsOfProfile(creamy', txn.env, txn.run_date, pid)
                        = RowsOfProfile(creamy, txn.env, txn.run_date, pid)
          /\ RowsElsewhere(creamy', txn.env, txn.run_date)
                = RowsElsewhere(creamy, txn.env, txn.run_date)
          /\ Len(creamy') >= Len(creamy)
          /\ SubSeq(creamy', 1, Len(creamy)) = creamy]_vars

\* C15 witness: an expansion has committed clones while a profile other than
\* the canonical one kept the selected row it had, and another pair has rows
C15_Witness ==
    /\ log.tag = "EXPAND" /\ log.msg = "Cloned" /\ log.n > 0
    /\ \E i \in Idx(creamy) :
        /\ IsCreamyOf(creamy[i], log.env, log.run_date)
        /\ creamy[i].PROFILE_ID # log.base
        /\ creamy[i].UPDATED_AT # log.now
    /\ RowsElsewhere(creamy, log.env, log.run_date) # <<>>

\* the profile with the most selected rows for the pair, ties to the smallest id
IsCanonical(t, env, run_date, p) ==
    /\ HasSelected(t, env, run_date, p)
    /\ \A q \in ProfilesIn(t) :
          \/ Len(SelectedOf(t, env, run_date, q)) < Len(SelectedOf(t, env, run_date, p))
          \/ /\ Len(SelectedOf(t, env, run_date, q)) = Len(SelectedOf(t, env, run_date, p))
             /\ ProfileOrd[p] <= ProfileOrd[q]

\* c is a copy of r for profile pid: equal in every column but the profile
\* and the timestamps, and with r's creation timestamp where r has one
IsCopyOf(c, r, pid) ==
    /\ c.PROFILE_ID = pid
    /\ [c EXCEPT !.PROFILE_ID = "", !.CREATED_AT = NULL, !.UPDATED_AT = 0]
         = [r EXCEPT !.PROFILE_ID = "", !.CREATED_AT = NULL, !.UPDATED_AT = 0]
    /\ r.CREATED_AT # NULL => c.CREATED_AT = r.CREATED_AT

\* profile pid holds, in table t2, exactly one copy of every selected row
\* that profile p has in table t, and no other selected row
HoldsCopies(t2, t, env, run_date, p, pid) ==
    LET src == SelectedOf(t, env, run_date, p)
        got == SelectedOf(t2, env, run_date, pid)
    IN  /\ \A i \in Idx(src) :
              Cardinality({j \in Idx(got) : IsCopyOf(got[j], src[i], pid)}) = 1
        /\ \A j \in Idx(got) : \E i \in Idx(src) : IsCopyOf(got[j], src[i], pid)

\* the running expansion ends by itself (commit or an exception, not a kill)
ExpansionEnds == txn.pc = "expand" /\ txn'.pc = "idle" /\ log' # log

\* C16 (as claimed): when an expansion of a pair with a selected row ends,
\* every profile of AIW_C_PROFILE that had no selected row for the pair holds
\* exactly one copy of each selected row of the canonical profile.
C16_ClonesOfCanonical ==
    [][ExpansionEnds =>
          \A p \in ProfilesIn(creamy) :
             IsCanonical(creamy, txn.env, txn.run_date, p) =>
                \A k \in Idx(profiles) :
                   ~HasSelected(creamy, txn.env, txn.run_date, profiles[k].PROFILE_ID) =>
                      HoldsCopies(creamy', creamy, txn.env, txn.run_date, p,
                                  profiles[k].PROFILE_ID)]_vars

\* the step commits the open transaction
CommitStep ==
    /\ txn.pc # "idle" /\ txn'.pc = "idle"
    /\ log'.tag # "NONE"
    /\ log'.msg \in {"Updated", "Cloned"} /\ log'.now = txn.now

\* C17: the committed table changes only by the commit that ends an
\* invocation, after its last statement, and then to the result of all its
\* statements; an invocation that ends in any other way leaves the committed
\* table as it was when the invocation started.
C17_CommitOnceAtEnd ==
    [][/\ ~CommitStep => creamy' = creamy
       /\ CommitStep =>
            /\ txn.todo = <<>>
            /\ creamy' = txn.view
            /\ txn.pc = "v1" =>
                 creamy' = ExecuteMany(creamy,
                               UpdatesV1(creamy, txn.env, txn.run_date, txn.now))
            /\ txn.pc = "v2" =>
                 creamy' = ExecuteMany(creamy,
                               UpdatesV2(creamy, txn.env, txn.run_date, txn.now))]_vars

\* C17 witness: an expansion failed on a stored key after it had inserted the
\* clones of an earlier profile (AGGRESSIVE), and no row of that profile is
\* in the committed table
C17_Witness ==
    /\ log.tag = "EXPAND" /\ log.msg = "IntegrityError"
    /\ \E k \in Idx(profiles) : profiles[k].PROFILE_ID = "AGGRESSIVE"
    /\ BaseProfile(creamy, log.env, log.run_date) = <<"CONSERVATIVE">>
    /\ "AGGRESSIVE" \notin ProfilesIn(creamy)
    /\ \E i \in Idx(creamy) :
        creamy[i].PROFILE_ID = "ULTRA_AGGRESSIVE" /\ creamy[i].IS_CREAMY = 0

(***************************************************************************)
(* Claims about repeated enrichment, single candidates and independence    *)
(***************************************************************************)

\* the number of metric fragments (confidence, reward:risk, risk class) in a
\* rationale
MetricFragments(reason) ==
    Cardinality({k \in 1..Len(reason) : reason[k][1] \in {"V1", "V2"}})

\* the invocation repeats the previous one: same enricher, same pair
RepeatedEnrichStep ==
    /\ log.tag \in EnrichTags
    /\ EnrichStep
    /\ log'.tag = log.tag /\ log'.env = log.env /\ log'.run_date = log.run_date

\* C18 (as claimed): when an enricher runs again on the (environment,
\* run-date) of its previous run, every rationale stays as the first run left
\* it, and every rationale it has written holds exactly one metric fragment.
C18_RationaleNotAccumulated ==
    [][RepeatedEnrichStep =>
          \A i \in Idx(creamy) :
             /\ creamy'[i].AI_REASON = creamy[i].AI_REASON
             /\ creamy'[i].UPDATED_AT = log'.now =>
                   MetricFragments(creamy'[i].AI_REASON) = 1]_vars

\* the selected rows of the row's pair and profile are this row alone
SingleInGroup(t, i) ==
    /\ t[i].IS_CREAMY = 1
    /\ \A j \in Idx(t) :
          (IsCreamyOf(t[j], t[i].ENV_CODE, t[i].RUN_DATE)
             /\ t[j].PROFILE_ID = t[i].PROFILE_ID) => j = i

\* v1's expected return and confidence at strength s for risk class parameters rp
RoiV1At(rp, s) == Round2(RAdd(rp[1], RMul(RSub(rp[2], rp[1]), s)))
ConfV1At(rp, s) ==
    RInt(RoundInt(ClampTo(RAdd(RAdd(RInt(50), RMul(s, RInt(35))),
                               RMul(RSub(rp[3], RInt(1)), RInt(10))),
                          RInt(1), RInt(99))))

\* v2's expected return at strength s: baseline * (0.70 + 0.60 * s)
RoiV2At(b, s) == RMul(b.roi, RAdd(Rat(7, 10), RMul(Rat(6, 10), s)))

\* C19 (as claimed): a candidate that is alone in its group is enriched with
\* strength 0.5 by both enrichers: the stored expected return (and v1's
\* confidence) is the one of strength 0.5.
C19_SingleCandidateHalf ==
    \A i \in Idx(creamy) :
        SingleInGroup(creamy, i) =>
            /\ WrittenBy("ENRICH_V2", i) =>
                  creamy[i].EXPECTED_RETURN_PCT
                      = RoiV2At(BASE[risk_from_profile_id(creamy[i].PROFILE_ID)], Rat(1, 2))
            /\ WrittenBy("ENRICH", i) =>
                  /\ creamy[i].EXPECTED_RETURN_PCT
                        = RoiV1At(risk_params(load_profiles(creamy[i].PROFILE_ID)), Rat(1, 2))
                  /\ creamy[i].CONFIDENCE
                        = ConfV1At(risk_params(load_profiles(creamy[i].PROFILE_ID)), Rat(1, 2))

\* C19 (amended): alone in its group, a candidate is enriched by v1 with
\* strength 0.5 whatever its score, and by v2 with strength 1.0 when its
\* display rank is 1 or less (or missing) and 0.0 when it is 2 or more.
C19_SingleCandidateStrength ==
    \A i \in Idx(creamy) :
        SingleInGroup(creamy, i) =>
            /\ WrittenBy("ENRICH_V2", i) =>
                  creamy[i].EXPECTED_RETURN_PCT
                      = RoiV2At(BASE[risk_from_profile_id(creamy[i].PROFILE_ID)],
                                IF IntOr0(creamy[i].DISPLAY_RANK) <= 1
                                THEN RInt(1) ELSE RInt(0))
            /\ WrittenBy("ENRICH", i) =>
                  /\ creamy[i].EXPECTED_RETURN_PCT
                        = RoiV1At(risk_params(load_profiles(creamy[i].PROFILE_ID)), Rat(1, 2))
                  /\ creamy[i].CONFIDENCE
                        = ConfV1At(risk_params(load_profiles(creamy[i].PROFILE_ID)), Rat(1, 2))

\* C19 witness: v1 has enriched a candidate that is alone in its group and
\* whose score is 3, a score that is the lowest of a larger group
C19_Witness ==
    \E i \in Idx(creamy) :
        /\ SingleInGroup(creamy, i)
        /\ WrittenBy("ENRICH", i)
        /\ creamy[i].RANKING_SCORE = RInt(3)
        /\ creamy[i].EXPECTED_RETURN_PCT = Rat(275, 100)

\* the rows of one profile, in stored order
OnlyProfile(t, pid) == SelectSeq(t, LAMBDA r : r.PROFILE_ID = pid)

\* the table after the enricher named by tag has run on t
EnrichedBy(tag, t, env, run_date, now) ==
    IF tag = "ENRICH_V2"
    THEN ExecuteMany(t, UpdatesV2(t, env, run_date, now))
    ELSE ExecuteMany(t, UpdatesV1(t, env, run_date, now))

\* the bars of the instruments of the rows of t
BarsOfInstruments(bars, t) ==
    SelectSeq(bars, LAMBDA b : \E i \in Idx(t) : t[i].INSTRUMENT_ID = b.INSTRUMENT_ID)

\* the run-dates the finished backtest has visited
VisitedRunDates ==
    RunDatesFrom(creamy, sim.args.env,
                 MaxRunDate(creamy, sim.args.env)[1] - sim.args.days)

\* the summary rows a backtest of the same run-dates produces when the table
\* holds the candidates of pid alone and the bars of their instruments alone
SummaryAlone(pid) ==
    LET own == OnlyProfile(creamy, pid)
        q   == WorkList(own, sim.args.env, VisitedRunDates, sim.args.topn)
    IN  RowsOut(RunAll([p \in {} |-> NewStat], q, BarsOfInstruments(eod, own), sim.args),
                sim.args.amb_rule)

\* C20: an enricher leaves the rows of every profile as it would leave them
\* were they the whole table, and the summary row the backtest writes for a
\* profile is the one it writes, for the same run-dates, when the table holds
\* that profile's candidates alone and the bars of their instruments alone.
C20_ProfilesIndependent ==
    /\ [][EnrichStep =>
            \A pid \in DOMAIN ProfileOrd :
               OnlyProfile(creamy', pid)
                  = EnrichedBy(log'.tag, OnlyProfile(creamy, pid),
                               log'.env, log'.run_date, log'.now)]_vars
    /\ [](sim.pc = "done" =>
            \A pid \in DOMAIN ProfileOrd :
               SelectSeq(out.rows, LAMBDA r : r.profile = pid) = SummaryAlone(pid))

\* C20 witness: the backtest has written a summary row for each of two
\* profiles that were both enriched for the same run-date, one of them
\* holding a larger display rank than any row of the other
C20_Witness ==
    /\ sim.pc = "done"
    /\ Len(out.rows) = 2
    /\ \E i, j \in Idx(creamy) :
          /\ creamy[i].PROFILE_ID # creamy[j].PROFILE_ID
          /\ creamy[i].UPDATED_AT > 0 /\ creamy[j].UPDATED_AT = creamy[i].UPDATED_AT
          /\ creamy[i].DISPLAY_RANK = <<2>> /\ creamy[j].DISPLAY_RANK = <<3>>
          /\ MaxRankOf(creamy, "SIM", 1, creamy[i].PROFILE_ID) = 2

(***************************************************************************)
(* Claims about strength and the bands of the risk classes                 *)
(***************************************************************************)

\* the rows of row i's group: the selected rows of its pair and profile
GroupOf(t, i) ==
    {j \in Idx(t) : /\ IsCreamyOf(t[j], t[i].ENV_CODE, t[i].RUN_DATE)
                    /\ t[j].PROFILE_ID = t[i].PROFILE_ID}

\* the display ranks present in row i's group
RanksOfGroup(t, i) ==
    {t[j].DISPLAY_RANK[1] : j \in {k \in GroupOf(t, i) : t[k].DISPLAY_RANK # NULL}}

\* the largest display rank of row i's group (0 when the group has no rank)
LargestRank(t, i) ==
    IF RanksOfGroup(t, i) = {} THEN 0 ELSE Max(RanksOfGroup(t, i))

\* the smallest display rank of row i's group (0 when the group has no rank)
SmallestRank(t, i) ==
    IF RanksOfGroup(t, i) = {} THEN 0 ELSE Min(RanksOfGroup(t, i))

\* the ranking scores of row i's group, as v1 reads them
ScoresOfGroup(t, i) == {FloatOr0(t[j].RANKING_SCORE) : j \in GroupOf(t, i)}

IsLowestScore(t, i) ==
    \A x \in ScoresOfGroup(t, i) : RLe(FloatOr0(t[i].RANKING_SCORE), x)
IsHighestScore(t, i) ==
    \A x \in ScoresOfGroup(t, i) : RLe(x, FloatOr0(t[i].RANKING_SCORE))

\* the v2 baseline of the row's risk class
BaseOfRow(r) == BASE[risk_from_profile_id(r.PROFILE_ID)]

\* the strength v2 used for the row, read back from the stored expected
\* return: roi = baseline * (0.70 + 0.60 * strength)
StrengthSeenV2(r) ==
    RDiv(RSub(RDiv(r.EXPECTED_RETURN_PCT, BaseOfRow(r).roi), Rat(7, 10)), Rat(6, 10))

\* the strength v1 used for the row, read back from the stored expected
\* return: roi = min + (max - min) * strength (to the hundredth)
StrengthSeenV1(r) ==
    LET rp == risk_params(load_profiles(r.PROFILE_ID))
    IN  RDiv(RSub(r.EXPECTED_RETURN_PCT, rp[1]), RSub(rp[2], rp[1]))

InUnit(x) == RLe(RInt(0), x) /\ RLe(x, RInt(1))

\* C21: the strength of every enriched candidate lies in [0,1], for every
\* combination of display ranks (v2) and of ranking scores (v1); in a v2 group
\* whose largest rank is above 1 the candidate of rank 1 has strength 1.0 and
\* the candidate of the largest rank has strength 0.0.
C21_StrengthInUnit ==
    \A i \in Idx(creamy) :
        /\ WrittenBy("ENRICH", i) => InUnit(StrengthSeenV1(creamy[i]))
        /\ WrittenBy("ENRICH_V2", i) =>
              /\ InUnit(StrengthSeenV2(creamy[i]))
              /\ LargestRank(creamy, i) > 1 =>
                    /\ creamy[i].DISPLAY_RANK = <<1>> => StrengthSeenV2(creamy[i]) = RInt(1)
                    /\ creamy[i].DISPLAY_RANK = <<LargestRank(creamy, i)>> =>
                          StrengthSeenV2(creamy[i]) = RInt(0)

\* C21 witness: v2 has enriched a group holding a negative rank, the rank 1
\* and a rank above 1
C21_Witness ==
    \E i, j, k \in Idx(creamy) :
        /\ WrittenBy("ENRICH_V2", i) /\ WrittenBy("ENRICH_V2", j) /\ WrittenBy("ENRICH_V2", k)
        /\ j \in GroupOf(creamy, i) /\ k \in GroupOf(creamy, i)
        /\ creamy[i].DISPLAY_RANK = <<-1>>
        /\ creamy[j].DISPLAY_RANK = <<1>>
        /\ creamy[k].DISPLAY_RANK = <<5>>
        /\ StrengthSeenV2(creamy[k]) = RInt(0)

\* 1 - (rank - 1) / (mx - 1)
RankStrength(rank, mx) == RSub(RInt(1), Rat(rank - 1, mx - 1))

\* C22 (as claimed): v2 gives a candidate of rank >= 1 the strength
\* 1 - (rank-1)/(maxRank-1), maxRank being the largest rank of its group, or
\* 200 when the group has fewer than 2 distinct ranks.
C22_FallbackOnFewDistinctRanks ==
    \A i \in Idx(creamy) :
        (WrittenBy("ENRICH_V2", i) /\ IntOr0(creamy[i].DISPLAY_RANK) >= 1) =>
            StrengthSeenV2(creamy[i])
               = RankStrength(creamy[i].DISPLAY_RANK[1],
                              IF Cardinality(RanksOfGroup(creamy, i)) < 2
                              THEN 200 ELSE LargestRank(creamy, i))

\* C22 (amended): v2 gives a candidate the strength
\* 1 - (max(1, rank) - 1)/(maxRank - 1), a missing rank counting as 0 and
\* maxRank being the largest rank of its group, or 200 when that is <= 1.
C22_FallbackOnMaxRankAtMostOne ==
    \A i \in Idx(creamy) :
        WrittenBy("ENRICH_V2", i) =>
            StrengthSeenV2(creamy[i])
               = RankStrength(IF IntOr0(creamy[i].DISPLAY_RANK) > 1
                              THEN creamy[i].DISPLAY_RANK[1] ELSE 1,
                              IF LargestRank(creamy, i) <= 1
                              THEN 200 ELSE LargestRank(creamy, i))

\* C22 witness: v2 has enriched a group of two candidates that share the
\* rank 3, and both have strength 0.0
C22_Witness ==
    \E i, j \in Idx(creamy) :
        /\ i # j /\ j \in GroupOf(creamy, i)
        /\ WrittenBy("ENRICH_V2", i) /\ WrittenBy("ENRICH_V2", j)
        /\ RanksOfGroup(creamy, i) = {3}
        /\ StrengthSeenV2(creamy[i]) = RInt(0) /\ StrengthSeenV2(creamy[j]) = RInt(0)

\* the stored expected return lies in [lo, hi]
RoiWithin(r, lo, hi) ==
    RLe(lo, r.EXPECTED_RETURN_PCT) /\ RLe(r.EXPECTED_RETURN_PCT, hi)

\* v1's band: the stored expected return is inside [min, max] of the risk
\* class; in a group of at least two distinct scores the highest score has the
\* maximum and the lowest the minimum
BandV1(i) ==
    LET rp == risk_params(load_profiles(creamy[i].PROFILE_ID))
    IN  /\ RoiWithin(creamy[i], rp[1], rp[2])
        /\ Cardinality(ScoresOfGroup(creamy, i)) >= 2 =>
              /\ IsHighestScore(creamy, i) => creamy[i].EXPECTED_RETURN_PCT = rp[2]
              /\ IsLowestScore(creamy, i) => creamy[i].EXPECTED_RETURN_PCT = rp[1]

\* the stored expected return is inside 0.70x - 1.30x of the class baseline
InBandV2(r) ==
    RoiWithin(r, RMul(BaseOfRow(r).roi, Rat(70, 100)), RMul(BaseOfRow(r).roi, Rat(130, 100)))

\* C23 (as claimed): the stored expected return stays inside the band of the
\* risk class, and in a group of at least two distinct ranks (v2) or scores
\* (v1) the best-ranked candidate has the top of the band and the worst-ranked
\* the bottom.
C23_BestGetsTopOfBand ==
    \A i \in Idx(creamy) :
        /\ WrittenBy("ENRICH", i) => BandV1(i)
        /\ WrittenBy("ENRICH_V2", i) =>
              /\ InBandV2(creamy[i])
              /\ Cardinality(RanksOfGroup(creamy, i)) >= 2 =>
                    /\ creamy[i].DISPLAY_RANK = <<SmallestRank(creamy, i)>> =>
                          creamy[i].EXPECTED_RETURN_PCT
                             = RMul(BaseOfRow(creamy[i]).roi, Rat(130, 100))
                    /\ creamy[i].DISPLAY_RANK = <<LargestRank(creamy, i)>> =>
                          creamy[i].EXPECTED_RETURN_PCT
                             = RMul(BaseOfRow(creamy[i]).roi, Rat(70, 100))

\* C23 (amended): the stored expected return stays inside the band of the
\* risk class; v1 gives the highest score of a group of two distinct scores
\* the top and the lowest the bottom; v2 gives the top to a candidate whose
\* rank is 1 or less or missing, and the bottom to the candidate of the
\* largest rank when that is above 1.
C23_RankOneGetsTopOfBand ==
    \A i \in Idx(creamy) :
        /\ WrittenBy("ENRICH", i) => BandV1(i)
        /\ WrittenBy("ENRICH_V2", i) =>
              /\ InBandV2(creamy[i])
              /\ IntOr0(creamy[i].DISPLAY_RANK) <= 1 =>
                    creamy[i].EXPECTED_RETURN_PCT
                       = RMul(BaseOfRow(creamy[i]).roi, Rat(130, 100))
              /\ (LargestRank(creamy, i) > 1
                    /\ creamy[i].DISPLAY_RANK = <<LargestRank(creamy, i)>>) =>
                    creamy[i].EXPECTED_RETURN_PCT
                       = RMul(BaseOfRow(creamy[i]).roi, Rat(70, 100))

\* C23 witness: v2 has enriched a group whose ranks are 2 and 3; the
\* best-ranked candidate is in the middle of the band
C23_Witness ==
    \E i, j \in Idx(creamy) :
        /\ j \in GroupOf(creamy, i)
        /\ WrittenBy("ENRICH_V2", i) /\ WrittenBy("ENRICH_V2", j)
        /\ RanksOfGroup(creamy, i) = {2, 3}
        /\ creamy[i].DISPLAY_RANK = <<2>>
        /\ creamy[i].EXPECTED_RETURN_PCT = BaseOfRow(creamy[i]).roi
        /\ creamy[j].EXPECTED_RETURN_PCT = RMul(BaseOfRow(creamy[j]).roi, Rat(70, 100))

\* the confidence printed in the rationale the enricher has written
ConfInRationale(r) ==
    LET last == r.AI_REASON[Len(r.AI_REASON)]
    IN  IF last[1] = "V2" THEN last[7] ELSE last[2]

\* C24 (as claimed): the confidence an enricher stores is an integer, and it
\* is the number printed in the rationale the enricher has written.
C24_ConfidenceRoundedAndStated ==
    \A i \in Idx(creamy) :
        (WrittenBy("ENRICH", i) \/ WrittenBy("ENRICH_V2", i)) =>
            /\ creamy[i].CONFIDENCE[2] = 1
            /\ creamy[i].CONFIDENCE = RInt(ConfInRationale(creamy[i]))

\* C29: for every candidate v2 has enriched, of each of the four risk
\* classes, downside = expected return / rrTarget lies strictly inside
\* (0.75, 15.0), the stored stop is entry * (1 - downside/100) with that
\* unclamped downside, and (target - entry) / (entry - stop) is the class's
\* rrTarget.
C29_DownsideInsideClamp ==
    \A i \in Idx(creamy) :
        WrittenBy("ENRICH_V2", i) =>
            LET r     == creamy[i]
                b     == BaseOfRow(r)
                d     == RDiv(r.EXPECTED_RETURN_PCT, b.rr)
                entry == r.ENTRY_PRICE
            IN  /\ RLt(Rat(75, 100), d) /\ RLt(d, RInt(15))
                /\ r.STOP_LOSS = RMul(entry, RSub(RInt(1), RDiv(d, RInt(100))))
                /\ RDiv(RSub(r.TARGET_PRICE, entry), RSub(entry, r.STOP_LOSS)) = b.rr

\* C29 witness: v2 has enriched a BALANCED candidate at strength 0.0, an
\* AGGRESSIVE one at strength 1.0 and an ULTRA_AGGRESSIVE one at strength 1.0
C29_Witness ==
    \E i, j, k \in Idx(creamy) :
        /\ WrittenBy("ENRICH_V2", i) /\ WrittenBy("ENRICH_V2", j) /\ WrittenBy("ENRICH_V2", k)
        /\ risk_from_profile_id(creamy[i].PROFILE_ID) = "BALANCED"
        /\ StrengthSeenV2(creamy[i]) = RInt(0)
        /\ risk_from_profile_id(creamy[j].PROFILE_ID) = "AGGRESSIVE"
        /\ StrengthSeenV2(creamy[j]) = RInt(1)
        /\ risk_from_profile_id(creamy[k].PROFILE_ID) = "ULTRA_AGGRESSIVE"
        /\ StrengthSeenV2(creamy[k]) = RInt(1)

\* C30: when an enricher runs again on the (environment, run-date) of its
\* previous run, every candidate keeps the target, stop, confidence and
\* expected return the first run gave it.
C30_NumericFieldsIdempotent ==
    [][RepeatedEnrichStep =>
          \A i \in Idx(creamy) :
             /\ creamy'[i].TARGET_PRICE = creamy[i].TARGET_PRICE
             /\ creamy'[i].STOP_LOSS = creamy[i].STOP_LOSS
             /\ creamy'[i].CONFIDENCE = creamy[i].CONFIDENCE
             /\ creamy'[i].EXPECTED_RETURN_PCT = creamy[i].EXPECTED_RETURN_PCT]_vars

\* C30 witness: an enricher has written the same row in two consecutive runs
\* on the same pair, and the row's economics differ from the upstream ones
C30_Witness ==
    /\ log.tag \in EnrichTags /\ log.msg = "Updated" /\ log.now = 2
    /\ \E i \in Idx(creamy) :
          /\ creamy[i].UPDATED_AT = 2
          /\ creamy[i].TARGET_PRICE # RInt(110)
          /\ Len(creamy[i].AI_REASON) >= 1
          /\ \/ log.tag = "ENRICH"
                /\ Len(creamy[i].AI_REASON) >= 2
                /\ creamy[i].AI_REASON[Len(creamy[i].AI_REASON) - 1][1] = "V1"
             \/ log.tag = "ENRICH_V2" /\ creamy[i].ENTRY_PRICE = RInt(100)

(***************************************************************************)
(* Claims about the candidates and the bars the backtest reads             *)
(***************************************************************************)

\* the backtest leaves argument parsing and enters its loops
SimStarts == sim.pc = "idle" /\ sim'.pc = "run"

\* the run-dates of the window: those of the selected rows of the environment
\* not earlier than the latest one minus the days
WindowDates(args) ==
    LET ds == {creamy[i].RUN_DATE : i \in {j \in Idx(creamy) :
                  creamy[j].ENV_CODE = args.env /\ creamy[j].IS_CREAMY = 1}}
    IN  {d \in ds : \A e \in ds : d >= e - args.days}

\* the selected rows of a profile on a run-date
GroupRows(env, rd, pid) ==
    {creamy[i] : i \in {j \in Idx(creamy) :
        IsCreamyOf(creamy[j], env, rd) /\ creamy[j].PROFILE_ID = pid}}

\* the candidates of a profile and run-date in a work list
CountedRows(todo, rd, pid) ==
    {todo[k] : k \in {j \in Idx(todo) : todo[j].RUN_DATE = rd /\ todo[j].PROFILE_ID = pid}}

\* min(N, group size)
TopCount(args, rd, pid) ==
    LET g == Cardinality(GroupRows(args.env, rd, pid))
    IN  IF g < args.topn THEN g ELSE args.topn

\* C25: for each run-date of the window and each profile the backtest visits
\* exactly min(N, group size) candidates of the group, each once, none of
\* them with a display rank above that of a candidate of the group it leaves
\* out; and the trade count of a profile at the end is the sum of these
\* numbers over the window.
C25_TopNByDisplayRank ==
    /\ [][SimStarts =>
            /\ \A k \in Idx(sim'.todo) : sim'.todo[k].RUN_DATE \in WindowDates(sim'.args)
            /\ \A rd \in WindowDates(sim'.args), pid \in DOMAIN ProfileOrd :
                 LET counted == CountedRows(sim'.todo, rd, pid)
                     group   == GroupRows(sim'.args.env, rd, pid)
                 IN  /\ counted \subseteq group
                     /\ Cardinality(counted) = TopCount(sim'.args, rd, pid)
                     /\ Cardinality({j \in Idx(sim'.todo) :
                           sim'.todo[j].RUN_DATE = rd /\ sim'.todo[j].PROFILE_ID = pid})
                          = Cardinality(counted)
                     /\ \A x \in counted, y \in group \ counted :
                           (x.DISPLAY_RANK # NULL /\ y.DISPLAY_RANK # NULL) =>
                               x.DISPLAY_RANK[1] <= y.DISPLAY_RANK[1]]_vars
    /\ [](sim.pc = "done" =>
            \A pid \in DOMAIN ProfileOrd :
               StatOf(sim.stats, pid).n
                  = Cardinality(UNION {{<<rd, k>> : k \in 1..TopCount(sim.args, rd, pid)} :
                                          rd \in WindowDates(sim.args)}))

\* C25 witness: with N = 1 the backtest has counted the rank-1 candidate of a
\* group of two whose rank-2 candidate is stored first
C25_Witness ==
    /\ sim.pc = "done" /\ sim.args.topn = 1
    /\ \E i, j \in Idx(creamy) :
          /\ i < j
          /\ IsCreamyOf(creamy[i], sim.args.env, 1) /\ IsCreamyOf(creamy[j], sim.args.env, 1)
          /\ creamy[i].PROFILE_ID = creamy[j].PROFILE_ID
          /\ creamy[i].DISPLAY_RANK = <<2>> /\ creamy[j].DISPLAY_RANK = <<1>>
          /\ creamy[i].ENTRY_PRICE = RInt(0)
          /\ StatOf(sim.stats, creamy[i].PROFILE_ID).n = 1
          /\ StatOf(sim.stats, creamy[i].PROFILE_ID).sum_edge # RInt(10)

\* bar b is one of the first H bars of r's instrument dated after r's run-date
IsForwardBarOf(b, r, horizon) ==
    /\ b.INSTRUMENT_ID = r.INSTRUMENT_ID
    /\ b.TRADE_DATE > r.RUN_DATE
    /\ Cardinality({k \in Idx(eod) : /\ eod[k].INSTRUMENT_ID = r.INSTRUMENT_ID
                                     /\ eod[k].TRADE_DATE > r.RUN_DATE
                                     /\ eod[k].TRADE_DATE < b.TRADE_DATE}) < horizon

\* the price table reduced to what may decide r's outcome: its forward bars,
\* the close kept on the latest of them only
DecidingBars(r, horizon) ==
    LET fw == SelectSeq(eod, LAMBDA b : IsForwardBarOf(b, r, horizon))
    IN  [k \in Idx(fw) |->
            IF \A j \in Idx(fw) : fw[j].TRADE_DATE <= fw[k].TRADE_DATE
            THEN fw[k] ELSE [fw[k] EXCEPT !.CLOSE_PRICE = RInt(0)]]

\* C26: the accumulators after a candidate is the same as if the price table
\* held only the first H bars of its instrument dated strictly after its
\* run-date, with no close but that of the latest of them.
C26_OnlyForwardBarsDecide ==
    [][SimStepTaken =>
          LET r == Head(sim.todo)
          IN  sim'.stats[r.PROFILE_ID]
                = Account(StatOf(sim.stats, r.PROFILE_ID), r,
                          DecidingBars(r, sim.args.horizon), sim.args)]_vars

\* C26 witness: with H = 1 a candidate of run-date 1 was settled on the bar
\* of day 2 while the table also holds a bar of day 3 that touches its stop
C26_Witness ==
    /\ sim.pc = "done" /\ sim.args.horizon = 1 /\ sim.args.env = "SIM"
    /\ Len(creamy) = 1 /\ creamy[1].RUN_DATE = 1 /\ creamy[1].IS_CREAMY = 1
    /\ creamy[1].STOP_LOSS = RInt(95) /\ creamy[1].TARGET_PRICE = RInt(110)
    /\ \E a, b \in Idx(eod) :
          /\ eod[a].INSTRUMENT_ID = "I1" /\ eod[a].TRADE_DATE = 2
          /\ eod[a].LOW_PRICE = RInt(97) /\ eod[a].HIGH_PRICE = RInt(112)
          /\ eod[b].INSTRUMENT_ID = "I1" /\ eod[b].TRADE_DATE = 3
          /\ eod[b].LOW_PRICE = RInt(95)
    /\ StatOf(sim.stats, creamy[1].PROFILE_ID).tgt_hit = 1
    /\ StatOf(sim.stats, creamy[1].PROFILE_ID).amb = 0

\* C27: in every accumulator the win counter equals the target-hit counter,
\* the loss counter equals the stop-hit counter, and wins plus losses do not
\* exceed the trade count.
C27_WinLoseCounters ==
    sim.pc \in {"run", "done"} =>
        \A pid \in DOMAIN sim.stats :
            LET st == sim.stats[pid]
            IN  /\ st.win = st.tgt_hit
                /\ st.lose = st.sl_hit
                /\ st.win + st.lose <= st.n

\* C27 witness: under stop_first a profile has one target hit and one
\* ambiguous candidate booked as a loss
C27_Witness ==
    /\ sim.pc = "done" /\ sim.args.amb_rule = "stop_first"
    /\ \E pid \in DOMAIN sim.stats :
          LET st == sim.stats[pid]
          IN  st.n = 2 /\ st.win = 1 /\ st.lose = 1 /\ st.amb = 1

(***************************************************************************)
(* Claims about expansion followed by enrichment                           *)
(***************************************************************************)

\* the risk class v2 is to give each profile of the model
ClassOfProfile ==
    [AGGRESSIVE |-> "AGGRESSIVE", CONSERVATIVE |-> "CONSERVATIVE",
     SWING |-> "BALANCED", ULTRA_AGGRESSIVE |-> "ULTRA_AGGRESSIVE"]

\* the row carries the v2 economics of its own profile
OwnEconomics(r) ==
    LET b == BASE[ClassOfProfile[r.PROFILE_ID]]
    IN  /\ RoiWithin(r, RMul(b.roi, Rat(70, 100)), RMul(b.roi, Rat(130, 100)))
        /\ Len(r.AI_REASON) = 1
        /\ r.AI_REASON[1][1] = "V2"
        /\ r.AI_REASON[1][2] = r.PROFILE_ID
        /\ r.AI_REASON[1][3] = ClassOfProfile[r.PROFILE_ID]

\* C28: when the last invocation that completed on the table is a v2
\* Enrichment of a pair, every selected candidate of the pair with entry > 0,
\* cloned or original, carries the economics of its own profile.
C28_ClonesGetOwnEconomics ==
    (log.tag = "ENRICH_V2" /\ log.msg = "Updated") =>
        \A i \in Idx(creamy) :
            (IsCreamyOf(creamy[i], log.env, log.run_date)
               /\ RLt(RInt(0), FloatOr0(creamy[i].ENTRY_PRICE))) =>
                OwnEconomics(creamy[i])

\* C28 witness: v2 has enriched a pair after an expansion cloned the
\* CONSERVATIVE candidate of instrument I2 into AGGRESSIVE, and the clone has
\* the AGGRESSIVE return of rank 1
C28_Witness ==
    /\ log.tag = "ENRICH_V2" /\ log.msg = "Updated"
    /\ \E i, j \in Idx(creamy) :
          /\ IsCreamyOf(creamy[i], log.env, log.run_date)
          /\ IsCreamyOf(creamy[j], log.env, log.run_date)
          /\ creamy[i].PROFILE_ID = "CONSERVATIVE" /\ creamy[i].INSTRUMENT_ID = "I2"
          /\ creamy[j].PROFILE_ID = "AGGRESSIVE" /\ creamy[j].INSTRUMENT_ID = "I2"
          /\ creamy[j].EXPECTED_RETURN_PCT = Rat(975, 100)
          /\ creamy[i].EXPECTED_RETURN_PCT = Rat(3575, 1000)

====
